---- MODULE Spec2Model ----
(***************************************************************************)
(* MachineMonitor (src/src/bystronic_opc/monitor.py) driving one           *)
(* BystronicClient (src/src/bystronic_opc/client.py) per machine.          *)
(*                                                                         *)
(* Every coroutine is cut at its await points: one action runs the code    *)
(* between two awaits, which asyncio executes without interleaving.        *)
(* Python >= 3.8 (setup.py python_requires): asyncio.CancelledError is a   *)
(* BaseException, so no `except Exception` of the package catches it.      *)
(***************************************************************************)
EXTENDS Integers, Sequences, FiniteSets, TLC

VARIABLES
    machines,        \* MachineMonitor.machines: the configured machine names
    retry_attempts,  \* MachineMonitor.retry_attempts
    _connected,      \* BystronicClient._connected of self._clients[name]
    _status,         \* MachineMonitor._status: name -> MachineStatus
    _monitoring,     \* MachineMonitor._monitoring
    _tasks,          \* MachineMonitor._tasks: the list of asyncio tasks (ids)
    task,            \* every _monitor_machine task created so far, by id
    stops,           \* the stop_monitoring calls suspended at an await
    lastCall,        \* the last start_monitoring/stop_monitoring call that returned
    now,             \* the clock read by datetime.now(), in seconds
    stamp,           \* name -> the clock value held by _status[name].last_update
    elapsed,         \* task id -> the seconds its asyncio.sleep has lasted
    returned,        \* the value a caller holds from a call of the monitor
    call             \* a call of a BystronicClient method: arguments, result

vars == <<machines, retry_attempts, _connected, _status, _monitoring, _tasks,
          task, stops, lastCall, now, stamp, elapsed, returned, call>>

\* What no step of the monitor or of its tasks changes: the clock, the
\* timers of the sleeps, the caller's value and the calls made directly to
\* a client.
aside == <<now, elapsed, returned, call>>

-----------------------------------------------------------------------------
(* Bounds of the model. *)

\* _monitor_machine tasks created in a run (the length of task)
MaxTasks == 2

\* stop_monitoring calls suspended at the same time
MaxActiveStops == 1

\* changes a caller makes to one mapping got from get_all_machine_status
MaxEdits == 1

\* characters in the name and in the file path of an encoded record
MaxText == 2

\* steps of the clock in the timed scenario (each of TickStep seconds)
ScenarioTicks == 7

\* the last value of the clock where it advances freely
MaxClock == 1

\* The machine names offered to the constructor, in dict order.
MachineOrder == <<"m1", "m2", "m3">>

\* The `machines` dicts offered to the constructor (their key sets).
MachineSets == {{"m1"}, {"m1", "m2"}}

\* The retry_attempts values offered to the constructor (3 is the default).
RetryChoices == {0, 3, 7}

-----------------------------------------------------------------------------
(* Program constants. *)

\* update_interval: int = 30
update_interval == 30

\* the factor of `retry_count * 10`
BackoffStep == 10

\* the cap of `min(retry_count * 10, 60)`
BackoffCap == 60

\* retry_attempts: int = 3
DefaultRetryAttempts == 3

-----------------------------------------------------------------------------
(* Helpers. *)

Min(a, b) == IF a <= b THEN a ELSE b

Range(s) == {s[i] : i \in 1..Len(s)}

\* Python's None where a mapping is expected: the value of dict.get for a
\* name that is not a key, and of a variable not yet assigned.
None == [none |-> TRUE]

\* MachineStatus(machine_url, is_connected, ..., last_update, error_message);
\* last_update is "None" or "now" (datetime.now()), error_message is "None"
\* or the text of the exception.  The clock value a set last_update holds
\* is kept apart, in stamp.
MachineStatus(is_connected, error_message, last_update) ==
    [is_connected |-> is_connected, error_message |-> error_message,
     last_update |-> last_update]

\* The error texts: str(e) of the ConnectionError raised by connect, and of
\* the exception caught by get_machine_status, by its cause.
ConnectErrorText == "Failed to connect"

ProbeFailures == {"connection lost", "other failure"}

\* Mutant of Backoff: the cap of 60 s is left out.
Backoff_NoCap(retry_count) == retry_count * BackoffStep

\* wait_time = min(retry_count * 10, 60)
Backoff(retry_count) == Min(retry_count * BackoffStep, BackoffCap)

\* The record of a returned call that waited for no task: op names the
\* call and its branch, running is as in a stop record (below).
NoClients(op) == [op |-> op, running |-> {}]

-----------------------------------------------------------------------------
(* MachineMonitor.__init__ *)

\* MachineMonitor(machines, retry_attempts=attempts), names the keys of
\* machines.
MonitorConstructed(names, attempts) ==
    /\ machines = names
    /\ retry_attempts = attempts
    /\ _connected = [m \in machines |-> FALSE]
    /\ _status = [m \in machines |-> MachineStatus(FALSE, "None", "None")]
    /\ _monitoring = FALSE
    /\ _tasks = <<>>
    /\ task = <<>>
    /\ stops = <<>>
    /\ lastCall = NoClients("none")
    /\ now = 0
    /\ stamp = [m \in machines |-> 0]
    /\ elapsed = <<>>
    /\ returned = None

\* A monitor just constructed; no method of a client has been called.
Constructed(names, attempts) ==
    /\ MonitorConstructed(names, attempts)
    /\ call = None

Init == \E names \in MachineSets, attempts \in RetryChoices :
            Constructed(names, attempts)

-----------------------------------------------------------------------------
(* MachineMonitor._monitor_machine: one task per machine and start.        *)
(*                                                                         *)
(* pc is the await the task is suspended at:                               *)
(*   "created"        asyncio.create_task done, coroutine not yet run      *)
(*   "connecting"     await client.connect()                  (line 102)   *)
(*   "probing"        await client.get_machine_status()       (line 107)   *)
(*   "sleep_interval" await asyncio.sleep(update_interval)    (line 113)   *)
(*   "sleep_backoff"  await asyncio.sleep(wait_time)          (line 122)   *)
(*   "sleep_failed"   await asyncio.sleep(update_interval)    (line 131)   *)
(*   "done"           the coroutine has returned or was cancelled          *)
(* must_cancel is the Task.cancel() request not yet delivered.  wait_time  *)
(* is the argument of the sleep in progress.  waits and stop_seen are      *)
(* history: the sleeps since retry_count was last 0, and whether a         *)
(* stop_monitoring call ran its cancellation part in the task's lifetime.  *)

Sleeps == {"sleep_interval", "sleep_backoff", "sleep_failed"}

Tasks == 1..Len(task)

Live(t) == task[t].pc # "done"

NewTask(m) ==
    [machine_name |-> m, pc |-> "created", retry_count |-> 0,
     must_cancel |-> FALSE, wait_time |-> 0, waits |-> <<>>,
     stop_seen |-> stops # <<>>]

\* The coroutine object is gone: its locals are dropped.
Finished(r) ==
    [r EXCEPT !.pc = "done", !.retry_count = 0, !.wait_time = 0, !.waits = <<>>]

\* `while self._monitoring:` and `if not client._connected: await
\* client.connect()`, else `await client.get_machine_status()`.
LoopHead(r) ==
    IF ~_monitoring THEN Finished(r)
    ELSE IF ~_connected[r.machine_name]
         THEN [r EXCEPT !.pc = "connecting", !.wait_time = 0]
         ELSE [r EXCEPT !.pc = "probing", !.wait_time = 0]

\* The first step of the coroutine: lines 95-102/107.
TaskStart(t) ==
    /\ task[t].pc = "created"
    /\ ~task[t].must_cancel
    /\ task' = [task EXCEPT ![t] = LoopHead(task[t])]
    /\ UNCHANGED <<aside, stamp, machines, retry_attempts, _connected,
                   _status, _monitoring, _tasks, stops, lastCall>>

\* Mutant of ConnectOk: `retry_count = 0` (line 103) is left out.
ConnectOk_NoReset(t) ==
    /\ task[t].pc = "connecting"
    /\ ~task[t].must_cancel
    /\ _connected' = [_connected EXCEPT ![task[t].machine_name] = TRUE]
    /\ task' = [task EXCEPT ![t] = [@ EXCEPT !.pc = "probing"]]
    /\ UNCHANGED <<aside, stamp, machines, retry_attempts, _status,
                   _monitoring, _tasks, stops, lastCall>>

\* client.connect() returns: self._connected = True; retry_count = 0; then
\* the task awaits client.get_machine_status().
ConnectOk(t) ==
    /\ task[t].pc = "connecting"
    /\ ~task[t].must_cancel
    /\ _connected' = [_connected EXCEPT ![task[t].machine_name] = TRUE]
    /\ task' = [task EXCEPT ![t] = [@ EXCEPT !.pc = "probing",
                                             !.retry_count = 0,
                                             !.waits = <<>>]]
    /\ UNCHANGED <<aside, stamp, machines, retry_attempts, _status,
                   _monitoring, _tasks, stops, lastCall>>

\* Mutant of OnConnectionError: the error is published at every failure,
\* before the backoff sleep too.
OnConnectionError_PublishEach(r, text) ==
    LET n == r.retry_count + 1 IN
    IF n <= retry_attempts
    THEN [st |-> MachineStatus(FALSE, text, "now"),
          r  |-> [r EXCEPT !.retry_count = n, !.pc = "sleep_backoff",
                           !.wait_time = Backoff(n),
                           !.waits = Append(@, Backoff(n))]]
    ELSE [st |-> MachineStatus(FALSE, text, "now"),
          r  |-> [r EXCEPT !.retry_count = n, !.pc = "sleep_failed",
                           !.wait_time = update_interval,
                           !.waits = Append(@, update_interval)]]

\* Mutant of OnConnectionError: `retry_count < self.retry_attempts`.
OnConnectionError_OffByOne(r, text) ==
    LET n == r.retry_count + 1 IN
    IF n < retry_attempts
    THEN [st |-> _status[r.machine_name],
          r  |-> [r EXCEPT !.retry_count = n, !.pc = "sleep_backoff",
                           !.wait_time = Backoff(n),
                           !.waits = Append(@, Backoff(n))]]
    ELSE [st |-> MachineStatus(FALSE, text, "now"),
          r  |-> [r EXCEPT !.retry_count = n, !.pc = "sleep_failed",
                           !.wait_time = update_interval,
                           !.waits = Append(@, update_interval)]]

\* Mutant of OnConnectionError: once the retries are used up the loop
\* publishes the status and returns.
OnConnectionError_GiveUp(r, text) ==
    LET n == r.retry_count + 1 IN
    IF n <= retry_attempts
    THEN [st |-> _status[r.machine_name],
          r  |-> [r EXCEPT !.retry_count = n, !.pc = "sleep_backoff",
                           !.wait_time = Backoff(n),
                           !.waits = Append(@, Backoff(n))]]
    ELSE [st |-> MachineStatus(FALSE, text, "now"),
          r  |-> Finished(r)]

\* `except ConnectionError as e:` of _monitor_machine, lines 115-131, for
\* the task record r whose awaited call raised ConnectionError(text).
OnConnectionError(r, text) ==
    LET n == r.retry_count + 1 IN
    IF n <= retry_attempts
    THEN [st |-> _status[r.machine_name],
          r  |-> [r EXCEPT !.retry_count = n, !.pc = "sleep_backoff",
                           !.wait_time = Backoff(n),
                           !.waits = Append(@, Backoff(n))]]
    ELSE [st |-> MachineStatus(FALSE, text, "now"),
          r  |-> [r EXCEPT !.retry_count = n, !.pc = "sleep_failed",
                           !.wait_time = update_interval,
                           !.waits = Append(@, update_interval)]]

\* Mutant of ConnectFail: connect sets `self._connected = True` before it
\* awaits the transport, so a failed connect leaves the flag set.
ConnectFail_FlagSetFirst(t) ==
    /\ task[t].pc = "connecting"
    /\ ~task[t].must_cancel
    /\ LET out == OnConnectionError(task[t], ConnectErrorText) IN
        /\ task' = [task EXCEPT ![t] = out.r]
        /\ _status' = [_status EXCEPT ![task[t].machine_name] = out.st]
        /\ stamp' = IF out.r.pc = "sleep_failed"
                    THEN [stamp EXCEPT ![task[t].machine_name] = now]
                    ELSE stamp
    /\ _connected' = [_connected EXCEPT ![task[t].machine_name] = TRUE]
    /\ UNCHANGED <<aside, machines, retry_attempts,
                   _monitoring, _tasks, stops, lastCall>>

\* client.connect() raises ConnectionError (any transport failure).
ConnectFail(t) ==
    /\ task[t].pc = "connecting"
    /\ ~task[t].must_cancel
    /\ LET out == OnConnectionError(task[t], ConnectErrorText) IN
        /\ task' = [task EXCEPT ![t] = out.r]
        /\ _status' = [_status EXCEPT ![task[t].machine_name] = out.st]
        /\ stamp' = IF out.r.pc = "sleep_failed"
                    THEN [stamp EXCEPT ![task[t].machine_name] = now]
                    ELSE stamp
    /\ UNCHANGED <<aside, machines, retry_attempts, _connected,
                   _monitoring, _tasks, stops, lastCall>>

\* Mutant of ClientStatus: the status of a failed read keeps the session's
\* flag.
ClientStatus_ErrorKeepsFlag(m, outcome) ==
    IF outcome = "ok"
    THEN MachineStatus(_connected[m], "None", "now")
    ELSE MachineStatus(_connected[m], outcome, "now")

\* BystronicClient.get_machine_status, lines 358-375: the status it returns
\* when the reads succeed ("ok") or when one raises (any Exception).
ClientStatus(m, outcome) ==
    IF outcome = "ok"
    THEN MachineStatus(_connected[m], "None", "now")
    ELSE MachineStatus(FALSE, outcome, "now")

\* Mutant of ProbeReturn: a failed probe raises ConnectionError into the
\* loop instead of returning a status.
ProbeReturn_AsConnectionError(t, outcome) ==
    /\ task[t].pc = "probing"
    /\ ~task[t].must_cancel
    /\ IF outcome = "ok"
       THEN /\ _status' = [_status EXCEPT ![task[t].machine_name] =
                               ClientStatus(task[t].machine_name, outcome)]
            /\ task' = [task EXCEPT ![t] = [@ EXCEPT !.pc = "sleep_interval",
                                                     !.wait_time = update_interval]]
       ELSE LET out == OnConnectionError(task[t], outcome) IN
            /\ task' = [task EXCEPT ![t] = out.r]
            /\ _status' = [_status EXCEPT ![task[t].machine_name] = out.st]
    /\ stamp' = [stamp EXCEPT ![task[t].machine_name] = now]
    /\ UNCHANGED <<aside, machines, retry_attempts, _connected,
                   _monitoring, _tasks, stops, lastCall>>

\* Mutant of ProbeReturn: last_update is a datetime taken once, when the
\* program started.
ProbeReturn_StaleStamp(t, outcome) ==
    /\ task[t].pc = "probing"
    /\ ~task[t].must_cancel
    /\ _status' = [_status EXCEPT ![task[t].machine_name] =
                       ClientStatus(task[t].machine_name, outcome)]
    /\ stamp' = [stamp EXCEPT ![task[t].machine_name] = 0]
    /\ task' = [task EXCEPT ![t] = [@ EXCEPT !.pc = "sleep_interval",
                                             !.wait_time = update_interval]]
    /\ UNCHANGED <<aside, machines, retry_attempts, _connected,
                   _monitoring, _tasks, stops, lastCall>>

\* Mutant of ProbeReturn: an error of the probe is raised into the loop and
\* no handler of the loop catches it: the coroutine ends.
ProbeReturn_Escapes(t, outcome) ==
    /\ task[t].pc = "probing"
    /\ ~task[t].must_cancel
    /\ IF outcome = "ok"
       THEN /\ _status' = [_status EXCEPT ![task[t].machine_name] =
                               ClientStatus(task[t].machine_name, outcome)]
            /\ stamp' = [stamp EXCEPT ![task[t].machine_name] = now]
            /\ task' = [task EXCEPT ![t] = [@ EXCEPT !.pc = "sleep_interval",
                                                     !.wait_time = update_interval]]
       ELSE /\ task' = [task EXCEPT ![t] = Finished(task[t])]
            /\ UNCHANGED <<_status, stamp>>
    /\ UNCHANGED <<aside, machines, retry_attempts, _connected,
                   _monitoring, _tasks, stops, lastCall>>

\* get_machine_status returns (it never raises); lines 107-113:
\* self._status[machine_name] = status; await asyncio.sleep(update_interval)
ProbeReturn(t, outcome) ==
    /\ task[t].pc = "probing"
    /\ ~task[t].must_cancel
    /\ _status' = [_status EXCEPT ![task[t].machine_name] =
                       ClientStatus(task[t].machine_name, outcome)]
    /\ stamp' = [stamp EXCEPT ![task[t].machine_name] = now]
    /\ task' = [task EXCEPT ![t] = [@ EXCEPT !.pc = "sleep_interval",
                                             !.wait_time = update_interval]]
    /\ UNCHANGED <<aside, machines, retry_attempts, _connected,
                   _monitoring, _tasks, stops, lastCall>>

\* Mutant of AfterSleep: `retry_count = 0` (line 132) is left out.
AfterSleep_NoReset(r) == r

\* The record after the sleep at r.pc returns: line 132 resets retry_count
\* after the sleep of the max-retries branch only.
AfterSleep(r) ==
    IF r.pc = "sleep_failed"
    THEN [r EXCEPT !.retry_count = 0, !.waits = <<>>]
    ELSE r

\* An asyncio.sleep returns and the loop goes round.
Wake(t) ==
    /\ task[t].pc \in Sleeps
    /\ ~task[t].must_cancel
    /\ task' = [task EXCEPT ![t] = LoopHead(AfterSleep(task[t]))]
    /\ UNCHANGED <<aside, stamp, machines, retry_attempts, _connected,
                   _status, _monitoring, _tasks, stops, lastCall>>

\* Task.cancel() is delivered: CancelledError is thrown into the coroutine at
\* the await it is suspended at (or before its first step); no handler of
\* _monitor_machine, connect or get_machine_status catches it.
Cancelled(t) ==
    /\ Live(t)
    /\ task[t].must_cancel
    /\ task' = [task EXCEPT ![t] = Finished(task[t])]
    /\ UNCHANGED <<aside, stamp, machines, retry_attempts, _connected,
                   _status, _monitoring, _tasks, stops, lastCall>>

-----------------------------------------------------------------------------
(* MachineMonitor.start_monitoring and stop_monitoring.                    *)
(*                                                                         *)
(* start_monitoring has no await: it is one step.  stop_monitoring awaits  *)
(* asyncio.gather (line 77) and, per connected client, the transport's     *)
(* disconnect (client.py line 78); a call suspended there is a record of   *)
(* stops: pc is "gather" or "disconnect", waiting the tasks handed to      *)
(* gather, todo the clients of `for client in self._clients.values()` from *)
(* the one being disconnected on.  running is history: the tasks that had  *)
(* not finished when the call was made.                                    *)

\* self._clients.values(): the configured machines in dict order.
RECURSIVE ClientOrder(_)
ClientOrder(order) ==
    IF order = <<>> THEN <<>>
    ELSE IF Head(order) \in machines
         THEN <<Head(order)>> \o ClientOrder(Tail(order))
         ELSE ClientOrder(Tail(order))

\* Mutant of StartMonitoring: the `if self._monitoring: return` is left out.
StartMonitoring_NoGuard ==
    /\ Len(task) + Cardinality(machines) <= MaxTasks
    /\ _monitoring' = TRUE
    /\ LET names == ClientOrder(MachineOrder) IN
        /\ task' = task \o [i \in 1..Len(names) |-> NewTask(names[i])]
        /\ _tasks' = _tasks \o [i \in 1..Len(names) |-> Len(task) + i]
    /\ lastCall' = NoClients("start")
    /\ UNCHANGED <<aside, stamp, machines, retry_attempts, _connected,
                   _status, stops>>

\* Mutant of StartTasks: the loop of the first machine is awaited in place
\* (no create_task), so no loop is started for the machines after it.
StartTasks_AwaitsFirst(cap) ==
    IF _monitoring
    THEN /\ lastCall' = NoClients("start_already_running")
         /\ UNCHANGED <<aside, stamp, machines, retry_attempts, _connected,
                        _status, _monitoring, _tasks, task, stops>>
    ELSE /\ Len(task) + Cardinality(machines) <= cap
         /\ _monitoring' = TRUE
         /\ LET names == SubSeq(ClientOrder(MachineOrder), 1, 1) IN
             /\ task' = task \o [i \in 1..Len(names) |-> NewTask(names[i])]
             /\ _tasks' = _tasks \o [i \in 1..Len(names) |-> Len(task) + i]
         /\ lastCall' = NoClients("start")
         /\ UNCHANGED <<aside, stamp, machines, retry_attempts, _connected,
                        _status, stops>>

\* lines 48-62, in a run of at most cap tasks
StartTasks(cap) ==
    IF _monitoring
    THEN /\ lastCall' = NoClients("start_already_running")
         /\ UNCHANGED <<aside, stamp, machines, retry_attempts, _connected,
                        _status, _monitoring, _tasks, task, stops>>
    ELSE /\ Len(task) + Cardinality(machines) <= cap
         /\ _monitoring' = TRUE
         /\ LET names == ClientOrder(MachineOrder) IN
             /\ task' = task \o [i \in 1..Len(names) |-> NewTask(names[i])]
             /\ _tasks' = _tasks \o [i \in 1..Len(names) |-> Len(task) + i]
         /\ lastCall' = NoClients("start")
         /\ UNCHANGED <<aside, stamp, machines, retry_attempts, _connected,
                        _status, stops>>

StartMonitoring == StartTasks(MaxTasks)

\* BystronicClient.disconnect line 77, over the clients still to visit: the
\* clients up to the first connected one are passed without an await.
RECURSIVE SkipDisconnected(_, _)
SkipDisconnected(todo, conn) ==
    IF todo = <<>> THEN <<>>
    ELSE IF conn[Head(todo)] THEN todo
         ELSE SkipDisconnected(Tail(todo), conn)

\* Lines 81-87 for the call rec, with todo the clients not yet visited and
\* conn the clients' flags: the call suspends in the next transport
\* disconnect, or returns.  others are the other suspended calls.
DisconnectClients(others, rec, todo, conn) ==
    LET remaining == SkipDisconnected(todo, conn) IN
    IF remaining = <<>>
    THEN /\ stops' = others
         /\ lastCall' = [op |-> "stop", running |-> rec.running]
    ELSE /\ stops' = Append(others, [rec EXCEPT !.pc = "disconnect",
                                                !.todo = remaining])
         /\ UNCHANGED lastCall

\* Mutant of CancelAll: stop_monitoring only clears the flag and leaves the
\* tasks to notice it.
CancelAll_FlagOnly(tk, ids) ==
    [t \in 1..Len(tk) |->
        IF tk[t].pc = "done" THEN tk[t]
        ELSE [tk[t] EXCEPT !.stop_seen = TRUE]]

\* `for task in self._tasks: task.cancel()`: a finished task ignores it.
CancelAll(tk, ids) ==
    [t \in 1..Len(tk) |->
        IF tk[t].pc = "done" THEN tk[t]
        ELSE [tk[t] EXCEPT !.must_cancel = @ \/ t \in ids,
                           !.stop_seen = TRUE]]

\* Mutant of StopMonitoring: the `if not self._monitoring: return` is left
\* out.
StopMonitoring_NoGuard ==
    /\ Len(stops) < MaxActiveStops
    /\ _monitoring' = FALSE
    /\ task' = CancelAll(task, Range(_tasks))
    /\ LET rec == [pc |-> "gather", waiting |-> Range(_tasks),
                   todo |-> <<>>,
                   running |-> {t \in Tasks : Live(t)}] IN
        IF _tasks = <<>>
        THEN /\ _tasks' = <<>>
             /\ DisconnectClients(stops, rec, ClientOrder(MachineOrder),
                                  _connected)
        ELSE /\ stops' = Append(stops, rec)
             /\ UNCHANGED <<_tasks, lastCall>>
    /\ UNCHANGED <<aside, stamp, machines, retry_attempts, _connected,
                   _status>>

\* lines 64-77, and 78-87 when gather has nothing to wait for
StopMonitoring ==
    IF ~_monitoring
    THEN /\ lastCall' = NoClients("stop_not_running")
         /\ UNCHANGED <<aside, stamp, machines, retry_attempts, _connected,
                        _status, _monitoring, _tasks, task, stops>>
    ELSE /\ Len(stops) < MaxActiveStops
         /\ _monitoring' = FALSE
         /\ task' = CancelAll(task, Range(_tasks))
         /\ LET rec == [pc |-> "gather", waiting |-> Range(_tasks),
                        todo |-> <<>>,
                        running |-> {t \in Tasks : Live(t)}] IN
             IF _tasks = <<>>
             THEN /\ _tasks' = <<>>
                  /\ DisconnectClients(stops, rec, ClientOrder(MachineOrder),
                                       _connected)
             ELSE /\ stops' = Append(stops, rec)
                  /\ UNCHANGED <<_tasks, lastCall>>
         /\ UNCHANGED <<aside, stamp, machines, retry_attempts, _connected,
                        _status>>

RemoveAt(s, k) == SubSeq(s, 1, k - 1) \o SubSeq(s, k + 1, Len(s))

\* gather returns once every task handed to it has finished; lines 78-83
StopJoin(k) ==
    /\ k \in 1..Len(stops)
    /\ stops[k].pc = "gather"
    /\ \A t \in stops[k].waiting : ~Live(t)
    /\ _tasks' = <<>>
    /\ DisconnectClients(RemoveAt(stops, k), stops[k],
                         ClientOrder(MachineOrder), _connected)
    /\ UNCHANGED <<aside, stamp, machines, retry_attempts, _connected,
                   _status, _monitoring, task>>

\* Mutant of DisconnectReturn: stop_monitoring marks the machine it has
\* disconnected as not connected in the table.
DisconnectReturn_MarksStatus(k, ok) ==
    /\ k \in 1..Len(stops)
    /\ stops[k].pc = "disconnect"
    /\ LET c == Head(stops[k].todo)
           conn == IF ok THEN [_connected EXCEPT ![c] = FALSE] ELSE _connected
       IN /\ _connected' = conn
          /\ _status' = [_status EXCEPT ![c].is_connected = FALSE]
          /\ DisconnectClients(RemoveAt(stops, k), stops[k],
                               Tail(stops[k].todo), conn)
    /\ UNCHANGED <<aside, stamp, machines, retry_attempts, _monitoring,
                   _tasks, task>>

\* Mutant of DisconnectReturn: the error of a disconnect is not caught
\* (lines 84-85 are left out): stop_monitoring ends by raising it.
DisconnectReturn_Propagates(k, ok) ==
    /\ k \in 1..Len(stops)
    /\ stops[k].pc = "disconnect"
    /\ LET c == Head(stops[k].todo) IN
        IF ok
        THEN /\ _connected' = [_connected EXCEPT ![c] = FALSE]
             /\ DisconnectClients(RemoveAt(stops, k), stops[k],
                                  Tail(stops[k].todo), _connected')
        ELSE /\ _connected' = _connected
             /\ stops' = RemoveAt(stops, k)
             /\ lastCall' = [op |-> "stop_raised",
                             running |-> stops[k].running]
    /\ UNCHANGED <<aside, stamp, machines, retry_attempts, _status,
                   _monitoring, _tasks, task>>

\* The transport's disconnect returns (ok: self._connected = False) or
\* raises (the flag is left set, the error is logged); lines 81-87 go on.
DisconnectReturn(k, ok) ==
    /\ k \in 1..Len(stops)
    /\ stops[k].pc = "disconnect"
    /\ LET c == Head(stops[k].todo)
           conn == IF ok THEN [_connected EXCEPT ![c] = FALSE] ELSE _connected
       IN /\ _connected' = conn
          /\ DisconnectClients(RemoveAt(stops, k), stops[k],
                               Tail(stops[k].todo), conn)
    /\ UNCHANGED <<aside, stamp, machines, retry_attempts, _status,
                   _monitoring, _tasks, task>>

-----------------------------------------------------------------------------
(* The read operations of MachineMonitor: none has an await or an           *)
(* assignment, so each is an operator over the state.                       *)

\* The names asked for: the configured machines and one that is not.
QueryNames == Range(MachineOrder) \cup {"m0"}

\* Mutant of get_machine_status: nothing is returned for a machine whose
\* loop has not published yet.
get_machine_status_AbsentUntilPublished(machine_name) ==
    IF machine_name \in DOMAIN _status
       /\ _status[machine_name].last_update # "None"
    THEN _status[machine_name]
    ELSE None

\* lines 144-153: self._status.get(machine_name)
get_machine_status(machine_name) ==
    IF machine_name \in DOMAIN _status THEN _status[machine_name] ELSE None

\* A dict d without the key k (del d[k]), and with d[k] = v.
DelKey(d, k) == [x \in DOMAIN d \ {k} |-> d[x]]

SetKey(d, k, v) == [x \in DOMAIN d \cup {k} |-> IF x = k THEN v ELSE d[x]]

\* Mutant of get_all_machine_status: the table itself is returned.
get_all_machine_status_NoCopy ==
    [alias |-> TRUE, data |-> _status, edits |-> 0]

\* lines 155-161: self._status.copy().  The value is what the caller gets:
\* a new dict (alias FALSE) holding the entries of the table (data); edits
\* counts the changes the caller has made to it.
get_all_machine_status ==
    [alias |-> FALSE, data |-> _status, edits |-> 0]

\* The content of the mapping the caller holds: that of the table when the
\* mapping is the table itself, its own otherwise.
Content(ret) ==
    IF ret = None THEN None
    ELSE IF ret.alias THEN _status ELSE ret.data

\* The keys the caller deletes or sets: one of the table, one that is new.
EditKeys == {"m1", "m0"}

\* A caller calls get_all_machine_status and keeps the result.
GetAllMachineStatus ==
    /\ returned' = get_all_machine_status
    /\ UNCHANGED <<call, machines, retry_attempts, _status,
                   _connected, _monitoring, _tasks, task, stops, lastCall,
                   now, stamp,
                   elapsed>>

\* The caller deletes a key of the mapping it holds, or sets one.  A dict
\* that is the table itself would be changed as the table.
CallerEdits(key, delete) ==
    /\ returned # None
    /\ returned.edits < MaxEdits
    /\ delete => key \in DOMAIN Content(returned)
    /\ LET new == IF delete THEN DelKey(Content(returned), key)
                  ELSE SetKey(Content(returned), key,
                              MachineStatus(TRUE, "None", "None"))
       IN IF returned.alias
          THEN /\ _status' = new
               /\ returned' = [returned EXCEPT !.edits = @ + 1]
          ELSE /\ returned' = [returned EXCEPT !.data = new,
                                               !.edits = @ + 1]
               /\ UNCHANGED _status
    /\ UNCHANGED <<call, machines, retry_attempts, _monitoring,
                   _connected, _tasks, task, stops, lastCall, now, stamp,
                   elapsed>>

\* [name for name, status in self._status.items() if ...]: the keys of the
\* table, in dict order, whose status has is_connected = flag.
RECURSIVE NamesWhere(_, _)
NamesWhere(order, flag) ==
    IF order = <<>> THEN <<>>
    ELSE IF Head(order) \in DOMAIN _status
            /\ _status[Head(order)].is_connected = flag
         THEN <<Head(order)>> \o NamesWhere(Tail(order), flag)
         ELSE NamesWhere(Tail(order), flag)

\* lines 163-172: `if status.is_connected`
get_connected_machines == NamesWhere(MachineOrder, TRUE)

\* Mutant of get_disconnected_machines: the `if` of the comprehension is
\* left out.
get_disconnected_machines_NoFilter == ClientOrder(MachineOrder)

\* lines 174-183: `if not status.is_connected`
get_disconnected_machines == NamesWhere(MachineOrder, FALSE)

\* Mutant of get_machine_client: a new client with the state of the
\* monitor's one is returned.
get_machine_client_Copy(machine_name) ==
    IF machine_name \in DOMAIN _connected
    THEN [copy_of |-> machine_name, _connected |-> _connected[machine_name]]
    ELSE None

\* lines 185-194: self._clients.get(machine_name).  The clients are made
\* once, in __init__, one per machine: the value is a reference to the
\* client of that name, or None.
get_machine_client(machine_name) ==
    IF machine_name \in DOMAIN _connected
    THEN [client |-> machine_name]
    ELSE None

\* The session seen through the value h that a caller holds: the client
\* the loop of that machine drives (line 95), or the caller's own object.
Session(h) ==
    IF "client" \in DOMAIN h
    THEN [machine_name |-> h.client, _connected |-> _connected[h.client]]
    ELSE [machine_name |-> h.copy_of, _connected |-> h._connected]

\* A caller awaits get_machine_client(machine_name) and keeps the result.
GetMachineClient(machine_name) ==
    /\ returned' = get_machine_client(machine_name)
    /\ UNCHANGED <<call, machines, retry_attempts, _status,
                   _connected, _monitoring, _tasks, task, stops, lastCall,
                   now, stamp,
                   elapsed>>

-----------------------------------------------------------------------------
(* BystronicClient.get_laser_parameters, called directly on a client. *)

\* A Python number; None is the record defined above.
Num(n) == [num |-> n]

\* The call has not returned yet.
Pending == [pending |-> TRUE]

\* The keys of `values`: node_id.split('.')[-1] for the six LASER_NODES
\* (client.py 45-52), in their order.
LASER_NODES ==
    <<"CurrentLaserPower", "GasChannel", "GasPressure",
      "LaserPowerDeviation", "LaserPowerSetpoint", "ProcessOperationMode">>

\* The outcome of `await node.read_value()`: a value, or an exception.
ReadRaises == [raises |-> "Exception"]

ReadValues == {Num(0), Num(100)}

ReadOutcomes == ReadValues \cup {ReadRaises}

\* dict.get(key, default): the default is for a key that is not in the
\* dict; a key that is there with the value None gives None.
DictGet(d, key, default) == IF key \in DOMAIN d THEN d[key] ELSE default

\* lines 313-322: the dict `values` after the loop over LASER_NODES, for
\* the outcomes reads[k] of the six reads.  A read that raises stores None.
LaserValues(reads) ==
    [k \in Range(LASER_NODES) |->
        IF reads[k] = ReadRaises THEN None ELSE reads[k]]

\* lines 324-331: LaserParameters(...) from `values`; the defaults are 0.0
\* or 0.
LaserParameters(values) ==
    [current_laser_power    |-> DictGet(values, "CurrentLaserPower", Num(0)),
     gas_channel            |-> DictGet(values, "GasChannel", Num(0)),
     gas_pressure           |-> DictGet(values, "GasPressure", Num(0)),
     laser_power_deviation  |-> DictGet(values, "LaserPowerDeviation", Num(0)),
     laser_power_setpoint   |-> DictGet(values, "LaserPowerSetpoint", Num(0)),
     process_operation_mode |-> DictGet(values, "ProcessOperationMode", Num(0))]

\* lines 307-331: what the call returns (it raises nothing: every read is
\* in a try, and the dataclass takes any value).
get_laser_parameters(reads) ==
    [returns |-> LaserParameters(LaserValues(reads))]

\* The field of LaserParameters filled from each key.
FieldOf ==
    [CurrentLaserPower    |-> "current_laser_power",
     GasChannel           |-> "gas_channel",
     GasPressure          |-> "gas_pressure",
     LaserPowerDeviation  |-> "laser_power_deviation",
     LaserPowerSetpoint   |-> "laser_power_setpoint",
     ProcessOperationMode |-> "process_operation_mode"]

\* get_laser_parameters runs to its return.
GetLaserParameters ==
    /\ call # None
    /\ call.op = "get_laser_parameters"
    /\ call.result = Pending
    /\ call' = [call EXCEPT !.result = get_laser_parameters(call.reads)]
    /\ UNCHANGED <<machines, retry_attempts, _connected, _status,
                   _monitoring, _tasks, task, stops, lastCall, now, stamp,
                   elapsed, returned>>

\* A client whose six reads end in any way, each on its own.
LaserInit ==
    /\ MonitorConstructed({"m1"}, DefaultRetryAttempts)
    /\ \E reads \in [Range(LASER_NODES) -> ReadOutcomes] :
          call = [op |-> "get_laser_parameters", reads |-> reads,
                  result |-> Pending]

LaserNext == GetLaserParameters

LaserSpec == LaserInit /\ [][LaserNext]_vars

-----------------------------------------------------------------------------
(* BystronicClient._decode_job_info and _decode_plan_info.  A bytes value  *)
(* is a sequence of numbers 0..255, a str the sequence of its code points, *)
(* a UUID the sequence of its 32 hexadecimal digits.                       *)

\* Python's body[lo:hi] for 0 <= lo: the slice stops at the end of body.
Slice(body, lo, hi) == SubSeq(body, lo + 1, Min(hi, Len(body)))

\* struct.unpack("<H", b)[0]
U16(b) == b[1] + 256 * b[2]

\* The counts of the model's integers: a length read from the buffer that
\* is LengthCap or more is kept as LengthCap.  Lengths are used as slice
\* bounds only, and every buffer is shorter than that.
LengthCap == 1073741824

\* struct.unpack("<I", b)[0], as used for name_length and file_path_length
U32(b) ==
    IF b[4] >= 64 THEN LengthCap
    ELSE b[1] + 256 * b[2] + 65536 * b[3] + 16777216 * b[4]

\* struct.unpack("<i", b)[0]: two's complement
I32(b) ==
    b[1] + 256 * b[2] + 65536 * b[3]
         + 16777216 * (IF b[4] >= 128 THEN b[4] - 256 ELSE b[4])

\* struct.unpack("<d", b)[0]: the float with these eight bytes
F64(b) == [f64 |-> b]

\* f"{n:04x}" for a uint16 n
Hex4(n) == <<n \div 4096, (n \div 256) % 16, (n \div 16) % 16, n % 16>>

\* bytes.hex()
RECURSIVE Hex(_)
Hex(b) ==
    IF b = <<>> THEN <<>>
    ELSE <<Head(b) \div 16, Head(b) % 16>> \o Hex(Tail(b))

\* Mutant of GuidStr: the 16 bytes are printed in the order of the buffer.
GuidStr_BufferOrder(b) == Hex(b)

\* struct.unpack("<IHH8s", b) and the f-string of lines 132-133, 163-164
\* and 167-168,
\* then UUID(...): the digits of the GUID, without the hyphens.  The uint32
\* is printed from its two 16-bit halves (its high half first).
GuidStr(b) ==
    Hex4(U16(SubSeq(b, 3, 4))) \o Hex4(U16(SubSeq(b, 1, 2)))
        \o Hex4(U16(SubSeq(b, 5, 6)))
        \o Hex4(U16(SubSeq(b, 7, 8)))
        \o Hex(SubSeq(b, 9, 16))

\* What stands for a str that bytes.decode("utf-8") could not produce.
Undecodable == <<-1>>

\* bytes.decode("utf-8") for the one-byte and two-byte forms.  The buffers
\* of the model hold no lead byte of a longer form: any other byte is an
\* invalid start byte or an unexpected end of data (UnicodeDecodeError).
RECURSIVE Utf8Decode(_)
Utf8Decode(b) ==
    IF b = <<>> THEN <<>>
    ELSE IF b[1] < 128
         THEN LET rest == Utf8Decode(Tail(b)) IN
              IF rest = Undecodable THEN Undecodable ELSE <<b[1]>> \o rest
    ELSE IF b[1] \in 194..223 /\ Len(b) >= 2 /\ b[2] \in 128..191
         THEN LET rest == Utf8Decode(Tail(Tail(b))) IN
              IF rest = Undecodable THEN Undecodable
              ELSE <<(b[1] - 192) * 64 + (b[2] - 128)>> \o rest
    ELSE Undecodable

\* An exception of the given class leaves the function.
Raise(kind) == [raises |-> kind]

\* Mutant of DataErrorFrom: there is no try around the decoding.
DataErrorFrom_NoTry(r) == r

\* `except Exception as e: raise DataError(...)`, lines 149-150 and 199-200
DataErrorFrom(r) ==
    IF "raises" \in DOMAIN r
    THEN [raises |-> "DataError", cause |-> r.raises]
    ELSE r

\* JobInfo(guid=UUID(guid_str), name=name, file_path=file_path)
JobInfo(guid, name, file_path) ==
    [guid |-> guid, name |-> name, file_path |-> file_path]

\* lines 127-148: the body of the try of _decode_job_info
JobTry(body) ==
    IF Len(body) < 36 THEN [returns |-> None]
    ELSE
    LET guid_str == GuidStr(Slice(body, 0, 16))
        name_length == U32(Slice(body, 32, 36))
        name == Utf8Decode(Slice(body, 36, 36 + name_length))
        file_path_start == 36 + name_length
        length_bytes == Slice(body, file_path_start, file_path_start + 4)
        file_path_length == U32(length_bytes)
        file_path == Utf8Decode(Slice(body, file_path_start + 4,
                                      file_path_start + 4 + file_path_length))
    IN IF name = Undecodable THEN Raise("UnicodeDecodeError")
       ELSE IF Len(length_bytes) # 4 THEN Raise("struct.error")
       ELSE IF file_path = Undecodable THEN Raise("UnicodeDecodeError")
       ELSE [returns |-> JobInfo(guid_str, name, file_path)]

\* Mutant of _decode_job_info: without `if extension_object is None`, the
\* read of .Body is what fails for None, inside the try.
_decode_job_info_NoneRaises(extension_object) ==
    IF extension_object = None THEN DataErrorFrom(Raise("AttributeError"))
    ELSE DataErrorFrom(JobTry(extension_object.Body))

\* lines 121-150.  extension_object is None or an object with a Body.
_decode_job_info(extension_object) ==
    IF extension_object = None THEN [returns |-> None]
    ELSE DataErrorFrom(JobTry(extension_object.Body))

\* PlanInfo(...), lines 187-198
PlanInfo(job_guid, plan_guid, name, b) ==
    [job_guid |-> job_guid, plan_guid |-> plan_guid, name |-> name,
     size_x |-> F64(SubSeq(b, 1, 8)),
     size_y |-> F64(SubSeq(b, 9, 16)),
     material_thickness |-> F64(SubSeq(b, 17, 24)),
     total_runs |-> Num(I32(SubSeq(b, 25, 28))),
     total_parts |-> Num(I32(SubSeq(b, 29, 32))),
     plan_state |-> Num(I32(SubSeq(b, 33, 36))),
     estimated_cut_time |-> F64(SubSeq(b, 37, 44))]

\* The bytes read after the name, lines 175-185: three doubles, two ints,
\* an int and a double.
PlanTail == 44

\* Mutant of PlanTry: the plan GUID is read after the two GUIDs of a
\* record that would have 16 bytes of padding, from byte 32.
PlanTry_GuidAt32(body) ==
    IF Len(body) < 36 THEN [returns |-> None]
    ELSE
    LET job_guid_str == GuidStr(Slice(body, 0, 16))
        plan_guid_str == GuidStr(Slice(body, 32, 48))
        name_length == U32(Slice(body, 32, 36))
        name == Utf8Decode(Slice(body, 36, 36 + name_length))
        offset == 36 + name_length
        numbers == Slice(body, offset, offset + PlanTail)
    IN IF Len(Slice(body, 32, 48)) # 16 THEN Raise("struct.error")
       ELSE IF name = Undecodable THEN Raise("UnicodeDecodeError")
       ELSE IF Len(numbers) # PlanTail THEN Raise("struct.error")
       ELSE [returns |-> PlanInfo(job_guid_str, plan_guid_str, name, numbers)]

\* lines 158-198: the body of the try of _decode_plan_info.  The four
\* unpack calls read 24, 8, 4 and 8 bytes in a row; the first that finds
\* its slice short raises struct.error.
PlanTry(body) ==
    IF Len(body) < 36 THEN [returns |-> None]
    ELSE
    LET job_guid_str == GuidStr(Slice(body, 0, 16))
        plan_guid_str == GuidStr(Slice(body, 16, 32))
        name_length == U32(Slice(body, 32, 36))
        name == Utf8Decode(Slice(body, 36, 36 + name_length))
        offset == 36 + name_length
        numbers == Slice(body, offset, offset + PlanTail)
    IN IF name = Undecodable THEN Raise("UnicodeDecodeError")
       ELSE IF Len(numbers) # PlanTail THEN Raise("struct.error")
       ELSE [returns |-> PlanInfo(job_guid_str, plan_guid_str, name, numbers)]

\* lines 152-200
_decode_plan_info(extension_object) ==
    IF extension_object = None THEN [returns |-> None]
    ELSE DataErrorFrom(PlanTry(extension_object.Body))

-----------------------------------------------------------------------------
(* The buffers given to the decoders: records in the layout the decoders   *)
(* read, every prefix of them, records that declare more bytes than they   *)
(* have, and short buffers.                                                *)

\* 'A' and U+00E9, which takes two bytes
Chars == {65, 233}

Texts == UNION {[1..n -> Chars] : n \in 0..MaxText}

\* str.encode("utf-8") for code points below 2048
RECURSIVE Utf8Encode(_)
Utf8Encode(text) ==
    IF text = <<>> THEN <<>>
    ELSE IF Head(text) < 128
         THEN <<Head(text)>> \o Utf8Encode(Tail(text))
         ELSE <<192 + (Head(text) \div 64), 128 + (Head(text) % 64)>>
                  \o Utf8Encode(Tail(text))

\* struct.pack("<I", n)
U32LE(n) ==
    <<n % 256, (n \div 256) % 256, (n \div 65536) % 256, n \div 16777216>>

\* GUIDs, as their 32 digits: 12345678-9abc-def0-1234-56789abcdef0,
\* ffffffff-ffff-ffff-ffff-ffffffffffff and the nil GUID.
Guids ==
    {[i \in 1..32 |-> i % 16], [i \in 1..32 |-> 15], [i \in 1..32 |-> 0]}

\* The byte written with the digits i and i+1 of g.
ByteAt(g, i) == 16 * g[i] + g[i + 1]

\* The 16 bytes that the decoders unpack with "<IHH8s": a little-endian
\* uint32, two little-endian uint16 and eight bytes as they are.
GuidBytes(g) ==
    <<ByteAt(g, 7), ByteAt(g, 5), ByteAt(g, 3), ByteAt(g, 1),
      ByteAt(g, 11), ByteAt(g, 9), ByteAt(g, 15), ByteAt(g, 13)>>
        \o [k \in 1..8 |-> ByteAt(g, 15 + 2 * k)]

\* Bytes 16..31 of a job record are not read.
Padding == [i \in 1..16 |-> 0]

\* A job record as _decode_job_info reads it.
EncodeJob(guid, name, file_path) ==
    GuidBytes(guid) \o Padding
        \o U32LE(Len(Utf8Encode(name))) \o Utf8Encode(name)
        \o U32LE(Len(Utf8Encode(file_path))) \o Utf8Encode(file_path)

\* struct.pack("<ddd", 1.5, 2.5, 3.0), ("<ii", -2, 7), ("<i", 3) and
\* ("<d", 9.25)
PlanNumbers ==
    <<0, 0, 0, 0, 0, 0, 248, 63,  0, 0, 0, 0, 0, 0, 4, 64,
      0, 0, 0, 0, 0, 0, 8, 64,  254, 255, 255, 255,  7, 0, 0, 0,
      3, 0, 0, 0,  0, 0, 0, 0, 0, 128, 34, 64>>

\* A plan record as _decode_plan_info reads it.
EncodePlan(job_guid, plan_guid, name) ==
    GuidBytes(job_guid) \o GuidBytes(plan_guid)
        \o U32LE(Len(Utf8Encode(name))) \o Utf8Encode(name)
        \o PlanNumbers

ValidJobs == {EncodeJob(g, n, p) : g \in Guids, n \in Texts, p \in Texts}

ValidPlans == {EncodePlan(jg, pg, n) : jg \in Guids, pg \in Guids, n \in Texts}

Prefixes(S) == UNION {{SubSeq(b, 1, k) : k \in 0..Len(b)} : b \in S}

\* The buffer b with the uint32 n written at the byte offset.
Declares(b, offset, n) ==
    [i \in 1..Len(b) |->
        IF i \in offset + 1 .. offset + 4 THEN U32LE(n)[i - offset] ELSE b[i]]

\* Records whose name length is one more than the bytes after byte 36,
\* 0xFFFFFF, or 0x40000000.
NameOvershoots ==
    {Declares(b, 32, n) : b \in ValidJobs \cup ValidPlans,
                          n \in {16777215, LengthCap}}
      \cup {Declares(b, 32, Len(b) - 35) : b \in ValidJobs \cup ValidPlans}

\* Job records whose name fits and whose file-path length is 1 or 100
\* more than the bytes that follow it.
PathOvershoots ==
    {Declares(EncodeJob(g, n, p), 36 + Len(Utf8Encode(n)),
              Len(Utf8Encode(p)) + more) :
        g \in Guids, n \in Texts, p \in Texts, more \in {1, 100}}

\* Buffers of 0..35 bytes, all 0x00 or all 0xFF.
ShortFills == {[i \in 1..n |-> x] : n \in 0..35, x \in {0, 255}}

Buffers ==
    ShortFills \cup Prefixes(ValidJobs \cup ValidPlans)
        \cup NameOvershoots \cup PathOvershoots

ExtensionObjects == {None} \cup {[Body |-> b] : b \in Buffers}

\* _decode_job_info runs to its return or raise.
DecodeJobInfo ==
    /\ call # None
    /\ call.op = "_decode_job_info"
    /\ call.result = Pending
    /\ call' = [call EXCEPT !.result = _decode_job_info(call.extension_object)]
    /\ UNCHANGED <<machines, retry_attempts, _connected, _status,
                   _monitoring, _tasks, task, stops, lastCall, now, stamp,
                   elapsed, returned>>

\* _decode_plan_info runs to its return or raise.
DecodePlanInfo ==
    /\ call # None
    /\ call.op = "_decode_plan_info"
    /\ call.result = Pending
    /\ call' = [call EXCEPT !.result = _decode_plan_info(call.extension_object)]
    /\ UNCHANGED <<machines, retry_attempts, _connected, _status,
                   _monitoring, _tasks, task, stops, lastCall, now, stamp,
                   elapsed, returned>>

DecodeInit ==
    /\ MonitorConstructed({"m1"}, DefaultRetryAttempts)
    /\ \E op \in {"_decode_job_info", "_decode_plan_info"},
          extension_object \in ExtensionObjects :
          call = [op |-> op, extension_object |-> extension_object,
                  result |-> Pending]

DecodeNext == DecodeJobInfo \/ DecodePlanInfo

DecodeSpec == DecodeInit /\ [][DecodeNext]_vars

-----------------------------------------------------------------------------

ProbeOutcomes == {"ok"} \cup ProbeFailures

Next ==
    \/ StartMonitoring
    \/ StopMonitoring
    \/ \E k \in 1..Len(stops) : StopJoin(k)
    \/ \E k \in 1..Len(stops), ok \in BOOLEAN : DisconnectReturn(k, ok)
    \/ \E t \in Tasks : TaskStart(t)
    \/ \E t \in Tasks : ConnectOk(t)
    \/ \E t \in Tasks : ConnectFail(t)
    \/ \E t \in Tasks, outcome \in ProbeOutcomes : ProbeReturn(t, outcome)
    \/ \E t \in Tasks : Wake(t)
    \/ \E t \in Tasks : Cancelled(t)

Spec == Init /\ [][Next]_vars

\* The event loop runs every task that is ready: a task just created takes
\* its first step, a sleep (a timer) ends, a cancellation is delivered.
\* Nothing is assumed of the network: a connect or probe call may never
\* return.
TaskProgress(t) ==
    /\ t \in Tasks
    /\ (TaskStart(t) \/ Wake(t) \/ Cancelled(t))

FairSpec == Spec /\ \A t \in 1..MaxTasks : WF_vars(TaskProgress(t))

\* The monitor with a caller that reads the table while the loops run.
ReaderNext ==
    \/ StartMonitoring
    \/ StopMonitoring
    \/ \E k \in 1..Len(stops) : StopJoin(k)
    \/ \E k \in 1..Len(stops), ok \in BOOLEAN : DisconnectReturn(k, ok)
    \/ \E t \in Tasks : TaskStart(t)
    \/ \E t \in Tasks : ConnectOk(t)
    \/ \E t \in Tasks : ConnectFail(t)
    \/ \E t \in Tasks, outcome \in ProbeOutcomes : ProbeReturn(t, outcome)
    \/ \E t \in Tasks : Wake(t)
    \/ \E t \in Tasks : Cancelled(t)
    \/ GetAllMachineStatus
    \/ \E key \in EditKeys, delete \in BOOLEAN : CallerEdits(key, delete)

\* The retries play no part in the reads: the monitor is constructed with
\* retry_attempts = 0, so that every failed connect publishes.
ReaderInit == Init /\ retry_attempts = 0

ReaderSpec == ReaderInit /\ [][ReaderNext]_vars

\* The clock advances by a second, at any time: nothing is assumed of the
\* time the calls and the sleeps take.
Tick ==
    /\ now < MaxClock
    /\ now' = now + 1
    /\ UNCHANGED <<call, machines, retry_attempts, _status,
                   _connected, _monitoring, _tasks, task, stops, lastCall,
                   stamp,
                   elapsed, returned>>

ClockNext ==
    \/ StartMonitoring
    \/ StopMonitoring
    \/ \E k \in 1..Len(stops) : StopJoin(k)
    \/ \E k \in 1..Len(stops), ok \in BOOLEAN : DisconnectReturn(k, ok)
    \/ \E t \in Tasks : TaskStart(t)
    \/ \E t \in Tasks : ConnectOk(t)
    \/ \E t \in Tasks : ConnectFail(t)
    \/ \E t \in Tasks, outcome \in ProbeOutcomes : ProbeReturn(t, outcome)
    \/ \E t \in Tasks : Wake(t)
    \/ \E t \in Tasks : Cancelled(t)
    \/ Tick

\* The monitor is constructed with retry_attempts up to the default.
ClockInit == Init /\ retry_attempts <= DefaultRetryAttempts

\* The monitor under a clock that never goes back.
ClockSpec == ClockInit /\ [][ClockNext]_vars

-----------------------------------------------------------------------------
(* The timed scenario: three machines, the defaults of the constructor, one *)
(* start_monitoring.  The connect of the first machine always fails, the    *)
(* other connects and every probe succeed.  The clock advances in steps of  *)
(* TickStep seconds; the network calls and the steps of the tasks take no   *)
(* time, so the clock advances only when every task is in a sleep that has  *)
(* not reached its delay.                                                   *)

\* The sleeps of the scenario (10, 20, 30 s) are multiples of it.
TickStep == BackoffStep

ScenarioMachines == {"m1", "m2", "m3"}

FailingMachine == "m1"

\* The seconds the asyncio.sleep of task t has lasted.
Elapsed(t) == IF t \in DOMAIN elapsed THEN elapsed[t] ELSE 0

\* asyncio.sleep(wait_time) returns once wait_time seconds have passed.
TimedWake(t) ==
    /\ task[t].pc \in Sleeps
    /\ ~task[t].must_cancel
    /\ Elapsed(t) >= task[t].wait_time
    /\ task' = [task EXCEPT ![t] = LoopHead(AfterSleep(task[t]))]
    /\ elapsed' = [u \in Tasks |-> IF u = t THEN 0 ELSE Elapsed(u)]
    /\ UNCHANGED <<call, machines, retry_attempts, _status,
                   _connected, _monitoring, _tasks, stops, lastCall, now, stamp,
                   returned>>

\* TickStep seconds pass.
ScenarioTick ==
    /\ task # <<>>
    /\ \A t \in Tasks :
          task[t].pc \in Sleeps /\ Elapsed(t) < task[t].wait_time
    /\ now < ScenarioTicks * TickStep
    /\ now' = now + TickStep
    /\ elapsed' = [t \in Tasks |-> Elapsed(t) + TickStep]
    /\ UNCHANGED <<call, machines, retry_attempts, _status,
                   _connected, _monitoring, _tasks, task, stops, lastCall,
                   stamp,
                   returned>>

ScenarioInit == Constructed(ScenarioMachines, DefaultRetryAttempts)

ScenarioNext ==
    \/ StartTasks(Cardinality(ScenarioMachines))
    \/ \E t \in Tasks : TaskStart(t)
    \/ \E t \in Tasks : task[t].machine_name # FailingMachine /\ ConnectOk(t)
    \/ \E t \in Tasks : task[t].machine_name = FailingMachine /\ ConnectFail(t)
    \/ \E t \in Tasks : ProbeReturn(t, "ok")
    \/ \E t \in Tasks : TimedWake(t)
    \/ ScenarioTick

ScenarioSpec == ScenarioInit /\ [][ScenarioNext]_vars

\* The monitor with a caller that asks for the client of a machine, at any
\* time, and holds it while the loops run.
HandleNext ==
    \/ Next
    \/ \E machine_name \in QueryNames : GetMachineClient(machine_name)

HandleSpec == ReaderInit /\ [][HandleNext]_vars

-----------------------------------------------------------------------------
(* The fleet with a machine that is never reached: two machines, one       *)
(* start_monitoring, no stop.  The connect of the first machine always     *)
(* fails; the connects and probes of the second succeed.  The event loop   *)
(* runs the loop of the second machine and its calls return; nothing is    *)
(* assumed of the steps of the first machine's loop.                       *)

FleetMachines == {"m1", "m2"}

FleetInit == \E attempts \in RetryChoices :
                Constructed(FleetMachines, attempts)

FleetNext ==
    \/ StartMonitoring
    \/ \E t \in Tasks : TaskStart(t)
    \/ \E t \in Tasks : task[t].machine_name # FailingMachine /\ ConnectOk(t)
    \/ \E t \in Tasks : task[t].machine_name = FailingMachine /\ ConnectFail(t)
    \/ \E t \in Tasks : ProbeReturn(t, "ok")
    \/ \E t \in Tasks : Wake(t)

\* The steps of the loop of a machine that is reached.
ReachedProgress(t) ==
    /\ t \in Tasks
    /\ task[t].machine_name # FailingMachine
    /\ (TaskStart(t) \/ ConnectOk(t) \/ ProbeReturn(t, "ok") \/ Wake(t))

FleetSpec ==
    /\ FleetInit
    /\ [][FleetNext]_vars
    /\ \A t \in 1..MaxTasks : WF_vars(ReachedProgress(t))

-----------------------------------------------------------------------------
(* Properties. *)

IsPrefix(s, full) ==
    /\ Len(s) <= Len(full)
    /\ \A i \in 1..Len(s) : s[i] = full[i]

\* Task t, which was awaiting client.connect(), is now in another await of
\* its loop: the call returned or raised (it was not cancelled).
ConnectEnded(t) ==
    /\ task[t].pc = "connecting"
    /\ task'[t].pc \notin {"connecting", "done"}

\* C1: with retry_attempts = 3, the sleeps of a loop since retry_count was
\* last 0 are 10, 20, 30 and then update_interval, in that order, the n-th
\* after the n-th failure; the failure that makes retry_count 4 publishes
\* the status (is_connected False, the error text) and sleeps
\* update_interval with retry_count still 4; retry_count goes back to 0
\* from 4 only at the end of that sleep, before connect is awaited again.
C1_BackoffThenSoftFail ==
    [][retry_attempts = 3 =>
        \A t \in Tasks :
            LET r == task[t]
                q == task'[t]
                m == r.machine_name
            IN /\ IsPrefix(q.waits, <<10, 20, 30, update_interval>>)
               /\ Len(q.waits) = q.retry_count
               /\ q.pc = "sleep_backoff" =>
                    /\ q.retry_count \in 1..3
                    /\ q.wait_time = q.waits[q.retry_count]
               /\ q.pc = "sleep_failed" =>
                    /\ q.retry_count = 4
                    /\ q.wait_time = update_interval
               /\ (ConnectEnded(t) /\ r.retry_count = 3 /\ q.pc # "probing") =>
                    /\ q.pc = "sleep_failed"
                    /\ _status'[m] = [is_connected |-> FALSE,
                                      error_message |-> ConnectErrorText,
                                      last_update |-> "now"]
               /\ (r.retry_count = 4 /\ q.retry_count # 4) =>
                    /\ r.pc = "sleep_failed"
                    /\ q.retry_count = 0
                    /\ q.pc \in {"connecting", "probing", "done"}
    ]_vars

\* C1 witness: the fourth failure in a row has happened.
C1_Witness ==
    \E t \in Tasks :
        /\ retry_attempts = 3
        /\ task[t].pc = "sleep_failed"
        /\ task[t].waits = <<10, 20, 30, update_interval>>
        /\ task[t].retry_count = 4
        /\ ~_status[task[t].machine_name].is_connected
        /\ _status[task[t].machine_name].error_message = ConnectErrorText

\* C2: for every retry_attempts, a loop sleeping after a connection failure
\* with retry_count = n <= retry_attempts sleeps min(n * 10, 60) seconds,
\* never more than 60, and 60 only when n >= 6.
C2_BackoffValue ==
    \A t \in Tasks :
        task[t].pc = "sleep_backoff" =>
            LET n == task[t].retry_count
                w == task[t].wait_time
            IN /\ 1 <= n /\ n <= retry_attempts
               /\ w = (IF n * 10 <= 60 THEN n * 10 ELSE 60)
               /\ w <= 60
               /\ (w = 60) <=> (n >= 6)

\* C2 witness: a backoff beyond the cap's threshold (n = 7).
C2_Witness ==
    \E t \in Tasks :
        /\ task[t].pc = "sleep_backoff"
        /\ task[t].retry_count = 7
        /\ task[t].wait_time = 60

\* C3: a connect call that returns leaves retry_count = 0 (and the history
\* of sleeps empty), the session's flag set, and the loop in the probe.
C3_ConnectResets ==
    [][\A t \in Tasks :
        (task[t].pc = "connecting" /\ task'[t].pc = "probing") =>
            /\ task'[t].retry_count = 0
            /\ task'[t].waits = <<>>
            /\ _connected'[task[t].machine_name]
            /\ _status' = _status
    ]_vars

\* C3 witness: after the retries were used up (the status still shows the
\* connect error), a connect succeeded and the loop is in the probe.
C3_Witness ==
    \E t \in Tasks :
        /\ task[t].pc = "probing"
        /\ task[t].retry_count = 0
        /\ _connected[task[t].machine_name]
        /\ _status[task[t].machine_name].error_message = ConnectErrorText
        /\ retry_attempts = 3

\* No stop_monitoring call has cancelled tasks in the lifetime of a loop
\* that is still alive: every live loop was started after the last stop
\* had returned.
NotStopped == \A u \in Tasks : Live(u) => ~task[u].stop_seen

\* Task t sleeps after a connection failure: a backoff, or the sleep after
\* the retries are used up.
FailureWait(t) ==
    /\ t \in Tasks
    /\ task[t].pc \in {"sleep_backoff", "sleep_failed"}

ConnectsAgain(t) == t \in Tasks /\ task[t].pc = "connecting"

\* C4: as long as monitoring is not stopped, a loop that sleeps after a
\* connection failure, the retries used up or not, awaits connect again;
\* and a loop ends only when a stop_monitoring call has been made in its
\* lifetime, never because of a failure.
C4_NoTerminalFailure ==
    /\ \A t \in 1..MaxTasks :
          []((FailureWait(t) /\ NotStopped)
                => <>(ConnectsAgain(t) \/ ~NotStopped))
    /\ [][\A t \in Tasks :
            (Live(t) /\ task'[t].pc = "done") => task'[t].stop_seen]_vars

\* C4 witness: the retries were used up (the status was published) and the
\* loop, never stopped, awaits connect again.
C4_Witness ==
    \E t \in Tasks :
        /\ retry_attempts = 3
        /\ task[t].pc = "connecting"
        /\ task[t].retry_count = 0
        /\ NotStopped
        /\ _monitoring
        /\ _status[task[t].machine_name].error_message = ConnectErrorText

\* C5: a probe that fails with a connection-class error is handled like a
\* failed connect: retry_count + 1, then the backoff sleep or, the retries
\* used up, the published status and the sleep of update_interval.
C5_ProbeConnectionErrorRetries ==
    [][\A t \in Tasks :
        ProbeReturn(t, "connection lost") =>
            LET out == OnConnectionError(task[t], "connection lost") IN
            /\ task'[t] = out.r
            /\ _status'[task[t].machine_name] = out.st
    ]_vars

\* C6: a probe that fails with another error leaves retry_count as it was,
\* publishes is_connected False with the error text and sleeps
\* update_interval; after that sleep the loop probes again without a
\* connect, retry_count still unchanged; a probe that succeeds publishes
\* the session's flag (True while monitoring is not stopped) and no error,
\* retry_count unchanged.
C6_OtherProbeFailure ==
    [][\A t \in Tasks :
        LET r == task[t]
            q == task'[t]
            m == r.machine_name
        IN /\ ProbeReturn(t, "other failure") =>
                /\ q.retry_count = r.retry_count
                /\ q.pc = "sleep_interval"
                /\ q.wait_time = update_interval
                /\ _status'[m] = [is_connected |-> FALSE,
                                  error_message |-> "other failure",
                                  last_update |-> "now"]
                /\ _connected' = _connected
           /\ (r.pc = "sleep_interval" /\ q.pc \notin {"sleep_interval", "done"}) =>
                /\ q.retry_count = r.retry_count
                /\ _status' = _status
                /\ q.pc = (IF _connected[m] THEN "probing" ELSE "connecting")
           /\ ProbeReturn(t, "ok") =>
                /\ q.retry_count = r.retry_count
                /\ q.wait_time = update_interval
                /\ _status'[m] = [is_connected |-> _connected[m],
                                  error_message |-> "None",
                                  last_update |-> "now"]
                /\ NotStopped => _status'[m].is_connected
    ]_vars

\* C6 witness: a probe failed with a non-connection error: the status is
\* published, the loop sleeps update_interval, retry_count is 0 and the
\* session is still connected.
C6_Witness ==
    \E t \in Tasks :
        /\ task[t].pc = "sleep_interval"
        /\ task[t].wait_time = update_interval
        /\ task[t].retry_count = 0
        /\ _connected[task[t].machine_name]
        /\ _status[task[t].machine_name] =
               [is_connected |-> FALSE, error_message |-> "other failure",
                last_update |-> "now"]

\* C7: from the call of stop_monitoring on a running monitor up to the next
\* start_monitoring (that is, while _monitoring is False) no step changes
\* the status table.
C7_NoWriteAfterStop ==
    [][~_monitoring => _status' = _status]_vars

\* C8 as claimed: a loop never ends while its connect or probe call is in
\* flight, and it ends only by reading the stop signal itself.
C8_CooperativeOnly ==
    [][\A t \in Tasks :
        (Live(t) /\ task'[t].pc = "done") =>
            /\ task[t].pc \notin {"connecting", "probing"}
            /\ ~task[t].must_cancel
    ]_vars

\* C8 amended: stop_monitoring on a running monitor requests the
\* cancellation of every unfinished task of its list; a task so cancelled
\* takes no further step of its loop and ends at the await it is suspended
\* at, an in-flight connect or probe call included, with the table and the
\* session flags untouched; a task that was not cancelled ends only by
\* reading _monitoring = False at the top of its loop.
C8_CancelInterrupts ==
    [][\A t \in Tasks :
        LET r == task[t]
            q == task'[t]
        IN /\ (_monitoring /\ ~_monitoring' /\ t \in Range(_tasks) /\ Live(t))
                => q.must_cancel
           /\ (r.must_cancel /\ Live(t)) => (q = r \/ q = Finished(r))
           /\ (Live(t) /\ q.pc = "done") =>
                IF r.must_cancel
                THEN /\ _status' = _status
                     /\ _connected' = _connected
                ELSE /\ r.pc \in {"created"} \cup Sleeps
                     /\ ~_monitoring
    ]_vars

\* C8 witness: stop_monitoring has been called while a connect or probe
\* call is in flight, and the task is cancelled.
C8_Witness ==
    \E t \in Tasks :
        /\ task[t].pc \in {"connecting", "probing"}
        /\ task[t].must_cancel
        /\ ~_monitoring
        /\ stops # <<>>

\* The unfinished loops of machine m in the task sequence tk.
LoopsOf(tk, m) ==
    {t \in 1..Len(tk) : tk[t].pc # "done" /\ tk[t].machine_name = m}

\* C9: while monitoring is running no task is created and start_monitoring
\* changes nothing (it only returns); a start_monitoring that sets
\* _monitoring creates one task per configured machine; so, with no stop
\* made since the loops were started, there is one loop per machine, and it
\* is in the task list.
C9_StartIdempotent ==
    [][/\ _monitoring =>
            /\ Len(task') = Len(task)
            /\ _tasks' = _tasks \/ _tasks' = <<>>
       /\ (lastCall' # lastCall /\ lastCall'.op = "start_already_running") =>
            /\ _monitoring
            /\ UNCHANGED <<aside, stamp, machines, retry_attempts,
                           _connected, _status, _monitoring, _tasks, task,
                           stops>>
       /\ (~_monitoring /\ _monitoring') =>
            /\ Len(task') = Len(task) + Cardinality(machines)
            /\ \A m \in machines :
                 Cardinality({t \in (1..Len(task')) \ Tasks :
                                 task'[t].machine_name = m}) = 1
       /\ (_monitoring' /\ NotStopped') =>
            \A m \in machines :
                /\ Cardinality(LoopsOf(task', m)) = 1
                /\ LoopsOf(task', m) \subseteq Range(_tasks')
    ]_vars

\* C9 witness: start_monitoring was called again while running, with two
\* machines: still two tasks.
C9_Witness ==
    /\ lastCall.op = "start_already_running"
    /\ _monitoring
    /\ NotStopped
    /\ machines = {"m1", "m2"}
    /\ Len(task) = 2
    /\ \A t \in Tasks : Live(t)

\* C10: a stop_monitoring call goes on to the disconnects, and returns,
\* only when every loop that was running when it was called has ended.
C10_StopJoinsAll ==
    /\ \A k \in 1..Len(stops) :
          stops[k].pc = "disconnect" =>
              \A t \in stops[k].running : ~Live(t)
    /\ lastCall.op = "stop" => \A t \in lastCall.running : ~Live(t)

\* C11: stop_monitoring on a monitor that is not running only returns: the
\* flag, the task list, the tasks, the table and the session flags are as
\* before and no call is left suspended in a transport disconnect.  While
\* the monitor is not running no stop_monitoring call begins its
\* cancellation part: the only calls that go on are those already
\* suspended.
C11_StopIdempotent ==
    [][/\ (lastCall' # lastCall /\ lastCall'.op = "stop_not_running") =>
            /\ ~_monitoring
            /\ UNCHANGED <<aside, stamp, machines, retry_attempts,
                           _connected, _status, _monitoring, _tasks, task,
                           stops>>
       /\ ~_monitoring =>
            /\ Len(stops') <= Len(stops)
            /\ \A t \in Tasks : task'[t].must_cancel = task[t].must_cancel
            /\ (lastCall' # lastCall /\ lastCall'.op = "stop") =>
                   Len(stops') < Len(stops)
    ]_vars

\* C11 witness: stop_monitoring was called a second time after a stop that
\* left a session connected (its disconnect raised): the session is still
\* connected and no call is suspended.
C11_Witness ==
    /\ lastCall.op = "stop_not_running"
    /\ ~_monitoring
    /\ stops = <<>>
    /\ task # <<>>
    /\ \E m \in machines : _connected[m]

\* The calls that returned normally, by the op of their record.
Returns ==
    {"none", "start", "start_already_running", "stop_not_running", "stop"}

\* todo from its first client that conn has as connected (nothing when
\* there is none): the clients a stop call still has to disconnect.
NextConnected(todo, conn) ==
    LET at == {i \in 1..Len(todo) : conn[todo[i]]} IN
    IF at = {} THEN <<>>
    ELSE SubSeq(todo, CHOOSE i \in at : \A j \in at : i <= j, Len(todo))

\* The step resumes the stop call suspended as stops[k]: the call returns
\* or is suspended again, as the last record of stops.
Resumes(k) ==
    /\ stops' # stops
    /\ \/ stops' = RemoveAt(stops, k)
       \/ /\ Len(stops') = Len(stops)
          /\ SubSeq(stops', 1, Len(stops) - 1) = RemoveAt(stops, k)

\* C12: no stop_monitoring call ends by raising; and when the transport
\* disconnect a call is suspended in ends, whether it returned (the flag of
\* the session is cleared) or raised (the flag is left set), the call goes
\* on with the clients after that one: it awaits the disconnect of the
\* first of them that is connected, and returns when none is.
C12_DisconnectErrorsSwallowed ==
    [][/\ lastCall'.op \in Returns
       /\ \A k \in 1..Len(stops) :
            (stops[k].pc = "disconnect" /\ Resumes(k)) =>
                LET rest == NextConnected(Tail(stops[k].todo), _connected')
                IN IF rest = <<>>
                   THEN /\ stops' = RemoveAt(stops, k)
                        /\ lastCall'.op = "stop"
                   ELSE /\ Len(stops') = Len(stops)
                        /\ stops'[Len(stops)].pc = "disconnect"
                        /\ stops'[Len(stops)].todo = rest
    ]_vars

\* C12 witness: a stop call has returned; the disconnect of the first
\* client raised (its session is still connected) and the second client,
\* which was published as connected, has been disconnected all the same.
C12_Witness ==
    /\ machines = {"m1", "m2"}
    /\ lastCall.op = "stop"
    /\ stops = <<>>
    /\ \A t \in Tasks : ~Live(t)
    /\ _connected["m1"]
    /\ ~_connected["m2"]
    /\ _status["m2"].is_connected

\* C13: once stop_monitoring has been called on a running monitor (and
\* until the next start), a loop that is in a sleep does not run the sleep
\* to its end: its next step is the delivery of the cancellation, which ends
\* it there.
C13_WaitAbandoned ==
    [][\A t \in Tasks :
        (task[t].pc \in Sleeps /\ ~_monitoring /\ task'[t] # task[t]) =>
            /\ task[t].must_cancel
            /\ task'[t] = Finished(task[t])
    ]_vars

\* The machine's entry is the one written by __init__: every status a loop
\* publishes has last_update set.
NeverPublished(m) == _status[m].last_update = "None"

\* This step of task t publishes a status for the machine called name: the
\* probe returned (line 108), or the retries were used up (line 125).
Publishes(t, name) ==
    /\ task[t].machine_name = name
    /\ \/ task[t].pc = "probing" /\ task'[t].pc = "sleep_interval"
       \/ task[t].pc \in {"connecting", "probing"}
            /\ task'[t].pc = "sleep_failed"

\* The statuses a step of a loop of machine m can publish.
Publishable(m) ==
    {ClientStatus(m, outcome) : outcome \in ProbeOutcomes}
        \cup {MachineStatus(FALSE, ConnectErrorText, "now")}

\* C14 as claimed: nothing is returned for a configured machine until its
\* loop has published.
C14_AbsentUntilPublished ==
    \A m \in machines : NeverPublished(m) => get_machine_status(m) = None

\* C14 amended: get_machine_status returns None only for a name that is not
\* configured.  For a configured machine it returns, from construction on,
\* the entry __init__ wrote (not connected, no error, no last_update) until
\* a loop of the machine publishes, and from then on the status of the last
\* publish: what it returns changes only in a publishing step of a loop of
\* that machine, to the status published.
C14_InitialThenLatest ==
    /\ \A m \in machines :
          get_machine_status(m) = MachineStatus(FALSE, "None", "None")
    /\ [][\A name \in QueryNames :
            LET before == get_machine_status(name)
                after == get_machine_status(name)'
            IN IF name \notin machines
               THEN after = None
               ELSE /\ after # None
                    /\ IF \E t \in Tasks : Publishes(t, name)
                       THEN /\ after \in Publishable(name)
                            /\ after.last_update = "now"
                       ELSE after = before
         ]_vars

\* C14 witness: of two machines being monitored one has published and the
\* other has not: the first reads as connected, the second as the entry of
\* __init__; the name that is not configured reads as None.
C14_Witness ==
    /\ machines = {"m1", "m2"}
    /\ _monitoring
    /\ get_machine_status("m1") = MachineStatus(TRUE, "None", "now")
    /\ NeverPublished("m2")
    /\ get_machine_status("m2") = MachineStatus(FALSE, "None", "None")
    /\ get_machine_status("m0") = None

\* C15: the mapping get_all_machine_status returns holds, for each machine,
\* the entry the table has at the call; the call leaves the table as it is;
\* no later change of the table (a publish) changes the content of the
\* mapping, and no change of the mapping (a key deleted or set by the
\* caller) changes the table.
C15_DetachedCopy ==
    [][/\ (returned' # returned /\ returned'.edits = 0) =>
            /\ Content(returned)' = _status
            /\ _status' = _status
       /\ (returned # None /\ _status' # _status) =>
            Content(returned)' = Content(returned)
       /\ (returned # None /\ Content(returned)' # Content(returned)) =>
            _status' = _status
    ]_vars

\* C15 witness: the caller's mapping still shows a machine as never
\* published after its loop has published, and the caller has deleted the
\* other machine's key, which the table still has.
C15_Witness ==
    /\ returned # None
    /\ machines = {"m1", "m2"}
    /\ DOMAIN Content(returned) = {"m2"}
    /\ Content(returned)["m2"] = MachineStatus(FALSE, "None", "None")
    /\ _status["m2"] = MachineStatus(TRUE, "None", "now")
    /\ DOMAIN _status = {"m1", "m2"}

\* C16: the names of get_connected_machines and get_disconnected_machines
\* are disjoint, neither list has a name twice, together they are the keys
\* of get_all_machine_status, a name is in the first list exactly when the
\* table has it with is_connected = True, and the keys of the table are the
\* configured machines.
C16_Partition ==
    LET conn == get_connected_machines
        disc == get_disconnected_machines
    IN /\ Range(conn) \cap Range(disc) = {}
       /\ Cardinality(Range(conn)) = Len(conn)
       /\ Cardinality(Range(disc)) = Len(disc)
       /\ Range(conn) \cup Range(disc) =
              DOMAIN Content(get_all_machine_status)
       /\ \A name \in QueryNames :
              name \in Range(conn) <=>
                  /\ get_machine_status(name) # None
                  /\ get_machine_status(name).is_connected
       /\ DOMAIN _status = machines

\* C16 witness: while monitoring two machines, one is listed as connected
\* and the other, which has not been reached and has no error yet, as
\* disconnected.
C16_Witness ==
    /\ _monitoring
    /\ get_connected_machines = <<"m2">>
    /\ get_disconnected_machines = <<"m1">>
    /\ _status["m1"].error_message = "None"

\* The seconds of backoff before the error of a machine that is never
\* reached is published: the sleeps after the failures 1..retry_attempts.
RECURSIVE BackoffTotal(_)
BackoffTotal(n) == IF n = 0 THEN 0 ELSE BackoffTotal(n - 1) + Backoff(n)

\* C17 as claimed: one update_interval after start_monitoring the two
\* machines that connect are listed as connected and the failing one as
\* disconnected, with an error message in its status.
C17_ErrorAfterOneInterval ==
    now = update_interval =>
        /\ get_connected_machines = <<"m2", "m3">>
        /\ get_disconnected_machines = <<FailingMachine>>
        /\ _status[FailingMachine].error_message # "None"

\* C17 amended: one update_interval after start_monitoring the two lists
\* are as claimed, but the status of the failing machine is still the entry
\* of __init__, without an error message; it has an error message only once
\* the backoff sleeps of the retries (10 + 20 + 30 = 60 s with the
\* defaults) have passed, and has it from the fourth failed connect on.
C17_ErrorAfterBackoff ==
    /\ now = update_interval =>
        /\ get_connected_machines = <<"m2", "m3">>
        /\ get_disconnected_machines = <<FailingMachine>>
        /\ _status[FailingMachine] = MachineStatus(FALSE, "None", "None")
    /\ _status[FailingMachine].error_message # "None" =>
        /\ now >= BackoffTotal(retry_attempts)
        /\ _status[FailingMachine] =
               MachineStatus(FALSE, ConnectErrorText, "now")
    /\ now > BackoffTotal(retry_attempts) =>
        _status[FailingMachine].error_message = ConnectErrorText

\* C17 witness: 30 s after the start the loop of the failing machine has
\* failed three times and sleeps its third backoff; the other two machines
\* have published a connected status.
C17_Witness ==
    /\ now = update_interval
    /\ \E t \in Tasks :
          /\ task[t].machine_name = FailingMachine
          /\ task[t].retry_count = 3
          /\ task[t].pc = "sleep_backoff"
    /\ get_connected_machines = <<"m2", "m3">>
    /\ _status["m2"].last_update = "now"
    /\ _status["m3"].last_update = "now"

\* C18: no entry of the table has is_connected = True together with an
\* error message.
C18_ErrorOnlyWhenDisconnected ==
    \A m \in machines :
        _status[m].is_connected => _status[m].error_message = "None"

\* C18 witness: of two machines with a connected session, one has a status
\* published by a successful probe and the other one by a failed probe,
\* which has the error and is_connected = False.
C18_Witness ==
    /\ machines = {"m1", "m2"}
    /\ _connected["m1"] /\ _connected["m2"]
    /\ _status["m1"] = MachineStatus(TRUE, "None", "now")
    /\ _status["m2"] = MachineStatus(FALSE, "connection lost", "now")

\* C19: with a clock that never goes back, the clock value of the
\* last_update of an entry never decreases: a publish for a machine sets it
\* to the clock value at the publish, which is at least the value the
\* replaced entry had, and no other step changes it.
C19_LastUpdateMonotonic ==
    [][\A m \in machines :
        /\ stamp'[m] >= stamp[m]
        /\ stamp'[m] <= now'
        /\ IF \E t \in Tasks : Publishes(t, m)
           THEN stamp'[m] = now /\ _status'[m].last_update = "now"
           ELSE stamp'[m] = stamp[m] /\ _status'[m] = _status[m]
    ]_vars

\* C19 witness: the two machines have published at different times, the
\* second at the last value of the clock, where the loop of the first is in
\* the sleep after a publish of its own.
C19_Witness ==
    /\ machines = {"m1", "m2"}
    /\ now = MaxClock
    /\ _status["m1"].last_update = "now" /\ stamp["m1"] < MaxClock
    /\ _status["m2"].last_update = "now" /\ stamp["m2"] = MaxClock
    /\ \E t \in Tasks :
          /\ task[t].machine_name = "m1"
          /\ task[t].pc \in {"sleep_interval", "sleep_failed"}

\* C20: the entry of a machine (its status and the clock value of its
\* last_update) changes only in a publishing step of a loop of that machine,
\* and that step leaves every other entry as it was; no step of
\* start_monitoring or stop_monitoring, no call of get_all_machine_status
\* and no change a caller makes to the mapping it got changes an entry; the
\* keys of the table never change.
C20_SingleWriter ==
    [][/\ DOMAIN _status' = DOMAIN _status
       /\ \A m \in machines :
            (_status'[m] # _status[m] \/ stamp'[m] # stamp[m]) =>
                /\ \E t \in Tasks : Live(t) /\ Publishes(t, m)
                /\ \A other \in machines \ {m} :
                     /\ _status'[other] = _status[other]
                     /\ stamp'[other] = stamp[other]
       /\ (\/ _monitoring' # _monitoring
           \/ stops' # stops
           \/ lastCall' # lastCall
           \/ returned' # returned) =>
                /\ _status' = _status
                /\ stamp' = stamp
    ]_vars

\* C20 witness: a caller has read the table; of the two loops, both past
\* their connect, the loop of m1 has published and the entry of m2 is still
\* the one of __init__.
C20_Witness ==
    /\ machines = {"m1", "m2"}
    /\ returned # None
    /\ _status["m1"].last_update = "now"
    /\ _status["m2"] = MachineStatus(FALSE, "None", "None")
    /\ \E t \in Tasks : task[t].machine_name = "m1" /\ task[t].pc \in Sleeps
    /\ \E t \in Tasks : task[t].machine_name = "m2" /\ task[t].pc = "probing"

\* The loop of machine m has published a connected status and sleeps
\* update_interval.
PublishedConnected(m) ==
    /\ _status[m] = MachineStatus(TRUE, "None", "now")
    /\ \E t \in Tasks :
          task[t].machine_name = m /\ task[t].pc = "sleep_interval"

\* The loop of machine m is in its probe.
Probing(m) ==
    \E t \in Tasks : task[t].machine_name = m /\ task[t].pc = "probing"

\* C21: whatever the loop of the machine that is never reached does (it may
\* be between two retries, in the sleep after its retries are used up, or
\* not run at all), the loop of every machine that is reached publishes a
\* connected status after start_monitoring, probes again once its sleep of
\* update_interval has ended, and publishes again.
C21_LoopsIndependent ==
    \A m \in FleetMachines \ {FailingMachine} :
        /\ _monitoring ~> PublishedConnected(m)
        /\ PublishedConnected(m) ~> Probing(m)
        /\ Probing(m) ~> PublishedConnected(m)

\* C21 witness: the machine that is reached has published a connected
\* status while the loop of the other one is in the sleep after its retries
\* were used up.
C21_Witness ==
    /\ PublishedConnected("m2")
    /\ \E t \in Tasks :
          /\ task[t].machine_name = FailingMachine
          /\ task[t].pc = "sleep_failed"
          /\ task[t].retry_count > 1

\* C22: a loop that awaits connect or the probe and is not being cancelled
\* is still alive after the call has ended, whatever its outcome: it is in
\* the probe or in one of its sleeps.  A loop ends only when a
\* cancellation is delivered to it or when, at the head of the loop (after
\* a sleep or at its first step), it reads _monitoring = False.
C22_NoFailureEscapes ==
    [][\A t \in Tasks :
          Live(t) =>
            /\ (task[t].pc \in {"connecting", "probing"}
                  /\ ~task[t].must_cancel
                  /\ task'[t].pc # task[t].pc)
               => task'[t].pc \in Sleeps \cup {"probing"}
            /\ ~Live(t)' =>
                  \/ task[t].must_cancel
                  \/ ~_monitoring /\ task[t].pc \in Sleeps \cup {"created"}]_vars

\* C22 witness: a probe has failed (connected session, read error), the
\* error is published and the loop is alive in its update_interval sleep.
C22_Witness ==
    \E t \in Tasks :
        /\ task[t].pc = "sleep_interval"
        /\ ~task[t].must_cancel
        /\ _monitoring
        /\ _connected[task[t].machine_name]
        /\ _status[task[t].machine_name].error_message \in ProbeFailures

\* C30: when the connect awaited by a loop ends (and no cancellation is
\* pending), either it returned, the session's flag is True and the loop
\* goes on to the probe; or it raised ConnectionError (the loop is in the
\* handler of ConnectionError: one more retry counted, a backoff or
\* max-retries sleep), and the flag of every session is what it was before.
C30_ConnectSetsFlagOrRaises ==
    [][\A t \in Tasks :
          (task[t].pc = "connecting"
             /\ ~task[t].must_cancel
             /\ task'[t].pc # "connecting")
          => \/ /\ task'[t].pc = "probing"
                /\ _connected' =
                      [_connected EXCEPT ![task[t].machine_name] = TRUE]
             \/ /\ task'[t].pc \in {"sleep_backoff", "sleep_failed"}
                /\ task'[t].retry_count = task[t].retry_count + 1
                /\ _connected' = _connected]_vars

\* C30 witness: a connect has failed once on a session that is not
\* connected; the loop is in the backoff sleep of the ConnectionError
\* handler and the flag is still False.
C30_Witness ==
    \E t \in Tasks :
        /\ task[t].pc = "sleep_backoff"
        /\ task[t].retry_count = 1
        /\ ~task[t].must_cancel
        /\ ~_connected[task[t].machine_name]

\* The client of machine m as the loop of m sees it.
LoopSession(m) == [machine_name |-> m, _connected |-> _connected[m]]

\* C29: in every state, get_machine_client gives None exactly for the names
\* that are not configured and, for a configured name, the client that the
\* loop of that machine drives; a caller that holds the value sees through
\* it what the loop does to the client afterwards (it is not a copy); and
\* the call changes nothing of the monitor.
C29_SameSession ==
    /\ [](\A n \in QueryNames :
             /\ get_machine_client(n) = None <=> n \notin machines
             /\ n \in machines =>
                   Session(get_machine_client(n)) = LoopSession(n))
    /\ [](returned # None =>
             Session(returned) = LoopSession(Session(returned).machine_name))
    /\ [][returned' # returned =>
             UNCHANGED <<machines, retry_attempts, _connected, _status,
                         _monitoring, _tasks, task, stops, lastCall>>]_vars

\* C29 witness: a caller holds the client of m1, obtained while it was not
\* connected (get_machine_client is the only way to it); the loop has
\* connected it since, and stop_monitoring has returned.
C29_Witness ==
    /\ returned = get_machine_client("m1")
    /\ returned # None
    /\ _connected["m1"]
    /\ ~_monitoring
    /\ lastCall.op = "stop"

\* C23: get_laser_parameters returns (it never raises), and in what it
\* returns a field whose read failed is 0 and a field whose read
\* succeeded is the value read.
C23_ZeroWhereReadFailed ==
    (call.op = "get_laser_parameters" /\ call.result # Pending) =>
        /\ "returns" \in DOMAIN call.result
        /\ \A k \in Range(LASER_NODES) :
              call.result.returns[FieldOf[k]] =
                 IF call.reads[k] = ReadRaises THEN Num(0) ELSE call.reads[k]

\* The decoder called has returned or raised.
Decoded == call.result # Pending

\* The decoder called was given a Body of at least n bytes.
BodyOfAtLeast(n) ==
    /\ call.extension_object # None
    /\ Len(call.extension_object.Body) >= n

\* The call raised DataError.
RaisedDataError ==
    /\ "raises" \in DOMAIN call.result
    /\ call.result.raises = "DataError"

\* The call returned a record (not None).
ReturnedRecord ==
    /\ "returns" \in DOMAIN call.result
    /\ call.result.returns # None

\* C24: for None and for every Body of fewer than 36 bytes, each of the
\* two decoders returns None; it raises nothing.
C24_AbsentOrShortGivesNone ==
    (Decoded /\ ~BodyOfAtLeast(36)) => call.result = [returns |-> None]

\* C24 witness: _decode_plan_info has returned for a Body of 35 bytes 0xFF.
C24_Witness ==
    /\ call.op = "_decode_plan_info"
    /\ Decoded
    /\ call.extension_object = [Body |-> [i \in 1..35 |-> 255]]

\* The name length declared at bytes 32..35 of the Body.
DeclaredNameLength == U32(Slice(call.extension_object.Body, 32, 36))

JobFieldRunsPast(body) ==
    LET name_end == 36 + U32(Slice(body, 32, 36)) IN
    IF name_end + 4 > Len(body) THEN TRUE
    ELSE name_end + 4 + U32(Slice(body, name_end, name_end + 4)) > Len(body)

\* The name, or the 44 bytes of numbers after it, ends after the Body of a
\* plan record.
PlanFieldRunsPast(body) ==
    LET name_end == 36 + U32(Slice(body, 32, 36)) IN
    IF name_end > Len(body) THEN TRUE
    ELSE name_end + PlanTail > Len(body)

\* C26: for every Body of at least 36 bytes in which a declared field runs
\* past the end, the decoder raises DataError; it returns no record.
C26_TruncationRaises ==
    (Decoded /\ BodyOfAtLeast(36)
       /\ IF call.op = "_decode_job_info"
          THEN JobFieldRunsPast(call.extension_object.Body)
          ELSE PlanFieldRunsPast(call.extension_object.Body))
    => RaisedDataError

\* Every GUID, name and file path of the model with the record that
\* encodes them.
EncodedJobs ==
    {[job |-> JobInfo(g, n, p), Body |-> EncodeJob(g, n, p)] :
        g \in Guids, n \in Texts, p \in Texts}

\* C27: for every GUID, name and file path, _decode_job_info given the
\* record that encodes them returns the JobInfo with that GUID, that name
\* and that file path.
C27_JobRoundTrip ==
    (call.op = "_decode_job_info" /\ Decoded /\ BodyOfAtLeast(36)) =>
        \A e \in EncodedJobs :
            call.extension_object.Body = e.Body
            => call.result = [returns |-> e.job]

\* C27 witness: the record of GUID 12345678-9abc-def0-1234-56789abcdef0,
\* name "Aé" (three bytes) and file path "é" has been decoded.
C27_Witness ==
    /\ call.op = "_decode_job_info"
    /\ Decoded
    /\ call.extension_object =
          [Body |-> EncodeJob([i \in 1..32 |-> i % 16], <<65, 233>>, <<233>>)]

\* The Body with the bytes of the GUID g at bytes 16..31.
WithBytes16To31(body, g) ==
    [i \in 1..Len(body) |->
        IF i \in 17..32 THEN GuidBytes(g)[i - 16] ELSE body[i]]

\* C28: _decode_plan_info given the record that encodes a job GUID and a
\* plan GUID returns them as job_guid and plan_guid; for every Body it
\* decodes to a record, other bytes at 16..31 give another plan_guid and
\* leave job_guid and every other field as they were; and job_guid and
\* plan_guid differ when bytes 0..15 and 16..31 differ.
C28_PlanGuidAt16 ==
    (call.op = "_decode_plan_info" /\ Decoded /\ ReturnedRecord) =>
        LET body == call.extension_object.Body
            plan == call.result.returns
        IN /\ \A jg \in Guids, pg \in Guids, n \in Texts :
                 body = EncodePlan(jg, pg, n)
                 => plan.job_guid = jg /\ plan.plan_guid = pg
           /\ Slice(body, 0, 16) # Slice(body, 16, 32)
                 => plan.job_guid # plan.plan_guid
           /\ \A g \in Guids :
                 LET other == _decode_plan_info(
                                 [Body |-> WithBytes16To31(body, g)])
                 IN /\ "returns" \in DOMAIN other
                    /\ [other.returns EXCEPT !.plan_guid = plan.plan_guid]
                          = plan
                    /\ GuidBytes(g) # Slice(body, 16, 32)
                          => other.returns.plan_guid # plan.plan_guid

\* C28 witness: a plan record with the nil GUID at bytes 0..15 and
\* 12345678-9abc-def0-1234-56789abcdef0 at bytes 16..31 has been decoded.
C28_Witness ==
    /\ call.op = "_decode_plan_info"
    /\ Decoded
    /\ ReturnedRecord
    /\ call.result.returns.job_guid = [i \in 1..32 |-> 0]
    /\ call.result.returns.plan_guid = [i \in 1..32 |-> i % 16]
    /\ call.result.returns.name = <<233, 65>>

\* C35: a failed connect that leaves retry_count <= retry_attempts
\* publishes nothing, and neither does the backoff sleep that follows: the
\* step that takes a loop into the backoff sleep, and every step of that
\* loop while it is in it, leave the whole status table (and the times of
\* its last_update fields) as they were.
C35_BackoffPublishesNothing ==
    [][\A t \in Tasks :
          (\/ task[t].pc = "connecting" /\ task'[t].pc = "sleep_backoff"
           \/ task[t].pc = "sleep_backoff" /\ task'[t] # task[t])
          => _status' = _status /\ stamp' = stamp]_vars

\* C35 witness: a loop is in its second backoff sleep while the table still
\* holds the connected status that an earlier run published.
C35_Witness ==
    \E t \in Tasks :
        /\ task[t].pc = "sleep_backoff"
        /\ task[t].retry_count = 2
        /\ _status[task[t].machine_name] = MachineStatus(TRUE, "None", "now")

\* C39: the retry_count of a live loop is in 0..retry_attempts + 1, and it
\* is retry_attempts + 1 only in the sleep after the retries were used up.
\* It changes only in a step of its own loop, which changes nothing of
\* another loop or of the orchestrator: by +1 when the connect fails, or
\* to 0 when the connect returns or that sleep has ended.
C39_RetryCountBounded ==
    /\ [](\A t \in Tasks :
             Live(t) =>
               /\ task[t].retry_count \in 0..(retry_attempts + 1)
               /\ task[t].retry_count = retry_attempts + 1
                     => task[t].pc = "sleep_failed")
    /\ [][\A t \in Tasks :
             (Live(t)' /\ task'[t].retry_count # task[t].retry_count) =>
               /\ \/ /\ task[t].pc = "connecting"
                     /\ task'[t].pc \in {"sleep_backoff", "sleep_failed"}
                     /\ task'[t].retry_count = task[t].retry_count + 1
                  \/ /\ task[t].pc = "connecting"
                     /\ task'[t].pc = "probing"
                     /\ task'[t].retry_count = 0
                  \/ /\ task[t].pc = "sleep_failed"
                     /\ task'[t].pc \in {"connecting", "probing"}
                     /\ task'[t].retry_count = 0
               /\ \A u \in Tasks \ {t} : task'[u] = task[u]
               /\ UNCHANGED <<_monitoring, _tasks, stops, lastCall,
                              retry_attempts>>]_vars

\* C39 witness: with retry_attempts = 7 a loop holds retry_count = 8 in
\* the sleep after its retries were used up.
C39_Witness ==
    \E t \in Tasks :
        /\ retry_attempts = 7
        /\ task[t].pc = "sleep_failed"
        /\ task[t].retry_count = 8

\* C38: while monitoring is running, an entry of the table with
\* is_connected = True is the entry of a machine whose client has
\* _connected = True.
C38_TableConnectedImpliesSession ==
    _monitoring =>
        \A m \in machines : _status[m].is_connected => _connected[m]

\* C36: when stop_monitoring has returned and nothing runs any more (the
\* monitor is not running, no loop is alive, no other call is suspended),
\* every client has _connected = False.
C36_StoppedMeansDisconnected ==
    (/\ lastCall.op = "stop"
     /\ ~_monitoring
     /\ stops = <<>>
     /\ \A t \in Tasks : ~Live(t))
    => \A m \in machines : ~_connected[m]

\* C37: once every start_monitoring and stop_monitoring call has returned,
\* every live loop is in the task list (a later stop_monitoring cancels
\* it) and no machine has two live loops.
C37_OneTrackedLoopPerDevice ==
    stops = <<>> =>
        /\ \A t \in Tasks : Live(t) => t \in Range(_tasks)
        /\ \A t \in Tasks, u \in Tasks :
              (Live(t) /\ Live(u)
                 /\ task[t].machine_name = task[u].machine_name)
              => t = u

\* Task t of the current run is past its connect: it awaits the probe or
\* sleeps update_interval after one.
Polling(r) == r.pc \in {"probing", "sleep_interval"}

\* C34: a loop that no stop_monitoring call has touched and that is past
\* its connect stays there: every step leaves it awaiting the probe or in
\* the sleep of update_interval, with retry_count and the session's flag as
\* they were, so that it never awaits connect again and never enters the
\* backoff or max-retries sleeps; its session's flag is True; a probe that
\* fails publishes is_connected False with the error text and sleeps
\* update_interval; and that sleep is always followed by the next probe.
C34_NeverReconnects ==
    /\ [](\A t \in Tasks :
            (Polling(task[t]) /\ ~task[t].stop_seen)
                => _connected[task[t].machine_name])
    /\ [][\A t \in Tasks :
            LET r == task[t]
                q == task'[t]
                m == r.machine_name
            IN (Polling(r) /\ ~q.stop_seen) =>
                  /\ Polling(q)
                  /\ q.retry_count = r.retry_count
                  /\ _connected'[m] = _connected[m]
                  /\ \A outcome \in ProbeFailures :
                        ProbeReturn(t, outcome) =>
                            /\ _status'[m] = MachineStatus(FALSE, outcome, "now")
                            /\ q.pc = "sleep_interval"
                            /\ q.wait_time = update_interval
                  /\ (r.pc = "sleep_interval" /\ q # r) => q.pc = "probing"
       ]_vars
    /\ \A t \in 1..MaxTasks :
          []((t \in Tasks /\ task[t].pc = "sleep_interval"
                           /\ ~task[t].stop_seen)
                => <>(t \in Tasks
                        /\ (task[t].pc = "probing" \/ task[t].stop_seen)))

\* C34 witness: the only loop ever created, never stopped, has connected;
\* its probe failed and was published; after the sleep it awaits the probe
\* again, retry_count 0 and the session still flagged connected.
C34_Witness ==
    /\ Len(task) = 1
    /\ ~task[1].stop_seen
    /\ task[1].pc = "probing"
    /\ task[1].retry_count = 0
    /\ _connected[task[1].machine_name]
    /\ _status[task[1].machine_name] =
           MachineStatus(FALSE, "other failure", "now")

-----------------------------------------------------------------------------
(* BystronicClient called directly: one client, "m1", and one caller that  *)
(* awaits each call before it makes the next.  A method runs to its return *)
(* or raise in one step, the outcome of what it awaits of the transport    *)
(* (self._client) being an input.  call holds the last call made:          *)
(*   op            the method                                              *)
(*   was_connected self._connected when it was called                      *)
(*   outcome       what the transport did                                  *)
(*   result        [returns |-> v] or [raises |-> class, message |-> text] *)
(*   transport     the connect, disconnect and call_method calls it made   *)
(*                 on self._client                                         *)
(*   before        the call made just before it, if any                    *)
(*   made          the number of calls made so far                         *)
(* A message is the sequence of the parts of the f-string.                 *)

\* The number of calls the caller makes.
MaxCalls == 3

\* The classes of what a call on self._client raises: any Exception, the
\* builtin ConnectionError and asyncio.TimeoutError among them.
TransportRaises == {"Exception", "builtins.ConnectionError", "TimeoutError"}

\* A call on self._client returns ("ok") or raises.
TransportOutcomes == {"ok"} \cup TransportRaises

\* What a method leaves: the flag, its result, its calls on self._client.
Left(flag, result, transport) ==
    [_connected |-> flag, result |-> result, transport |-> transport]

\* lines 67-73
connect(flag, outcome) ==
    IF outcome = "ok"
    THEN Left(TRUE, [returns |-> None], <<"connect">>)
    ELSE Left(flag, [raises |-> "ConnectionError",
                     message |-> <<"Failed to connect to", "m1", outcome>>],
              <<"connect">>)

\* lines 75-79: what self._client.disconnect() raises leaves the method
\* before `self._connected = False`.
disconnect(flag, outcome) ==
    IF ~flag THEN Left(flag, [returns |-> None], <<>>)
    ELSE IF outcome = "ok"
         THEN Left(FALSE, [returns |-> None], <<"disconnect">>)
         ELSE Left(flag, [raises |-> outcome, message |-> <<outcome>>],
                   <<"disconnect">>)

\* lines 90-93
_ensure_connected(flag) ==
    IF ~flag
    THEN [raises |-> "ConnectionError",
          message |-> <<"Client is not connected. Call connect() first.">>]
    ELSE [returns |-> None]

\* What the try of _call_method meets: get_node raises (no call is sent),
\* call_method raises, or it returns the result.
CallOutcomes ==
    {[at |-> "return"]}
      \cup {[at |-> a, raises |-> k] :
                a \in {"get_node", "call_method"}, k \in TransportRaises}

\* The calls of the try on self._client that reach the server.
CallsSent(outcome) ==
    IF outcome.at = "get_node" THEN <<>> ELSE <<"call_method">>

\* lines 113-119: the try and its handler
CallTry(flag, outcome) ==
    IF outcome.at = "return"
    THEN Left(flag, [returns |-> "result"], CallsSent(outcome))
    ELSE Left(flag, [raises |-> "MethodCallError",
                     message |-> <<"Method call failed", outcome.raises>>],
              CallsSent(outcome))

\* Mutant of _call_method: `self._ensure_connected()` is inside the try.
_call_method_EnsureInTry(flag, outcome) ==
    IF "raises" \in DOMAIN _ensure_connected(flag)
    THEN Left(flag, [raises |-> "MethodCallError",
                     message |-> <<"Method call failed", "ConnectionError">>],
              <<>>)
    ELSE CallTry(flag, outcome)

\* lines 95-119
_call_method(flag, outcome) ==
    IF "raises" \in DOMAIN _ensure_connected(flag)
    THEN Left(flag, _ensure_connected(flag), <<>>)
    ELSE CallTry(flag, outcome)

\* A job record, and the same with a name length that runs past its end.
SampleJob == EncodeJob([i \in 1..32 |-> i % 16], <<65>>, <<233>>)

\* What the read of the CurrentJob node gives: the get_child or get_value
\* raises, or the value is None or an object with a Body.
JobReads ==
    {Raise(k) : k \in TransportRaises}
      \cup {[value |-> None], [value |-> [Body |-> <<>>]],
            [value |-> [Body |-> SampleJob]],
            [value |-> [Body |-> Declares(SampleJob, 32, Len(SampleJob) - 35)]]}

\* lines 202-213: _decode_job_info is inside the try, its DataError is
\* wrapped again.
get_current_job(read) ==
    IF "raises" \in DOMAIN read
    THEN [raises |-> "DataError",
          message |-> <<"Failed to get current job", read.raises>>]
    ELSE LET decoded == _decode_job_info(read.value) IN
         IF "raises" \in DOMAIN decoded
         THEN [raises |-> "DataError",
               message |-> <<"Failed to get current job",
                             "Failed to decode job info", decoded.cause>>]
         ELSE decoded

\* The six reads of get_laser_parameters all end the same way.
LaserReads == {[k \in Range(LASER_NODES) |-> o] : o \in ReadOutcomes}

\* MachineStatus(machine_url=..., is_connected=..., current_job=...,
\* laser_parameters=..., last_update=..., error_message=...); a field that
\* is not given is None.
ProbeStatus(is_connected, current_job, laser_parameters, error_message) ==
    [machine_url |-> "m1", is_connected |-> is_connected,
     current_job |-> current_job, laser_parameters |-> laser_parameters,
     last_update |-> "now", error_message |-> error_message]

\* Mutant of client_get_machine_status: there is no try, the DataError of
\* get_current_job leaves the method.
client_get_machine_status_NoTry(flag, read, reads) ==
    LET current_job == get_current_job(read) IN
    IF "raises" \in DOMAIN current_job
    THEN Left(flag, current_job, <<>>)
    ELSE Left(flag, [returns |-> ProbeStatus(flag, current_job.returns,
                                    get_laser_parameters(reads).returns,
                                    None)], <<>>)

\* BystronicClient.get_machine_status, lines 352-375; str(e) is the message.
client_get_machine_status(flag, read, reads) ==
    LET current_job == get_current_job(read) IN
    IF "raises" \in DOMAIN current_job
    THEN Left(flag, [returns |-> ProbeStatus(FALSE, None, None,
                                             current_job.message)], <<>>)
    ELSE Left(flag, [returns |-> ProbeStatus(flag, current_job.returns,
                                    get_laser_parameters(reads).returns,
                                    None)], <<>>)

\* The last call made, as the next call keeps it.
Made == IF call.op = "__init__" THEN <<>>
        ELSE <<[op |-> call.op, was_connected |-> call.was_connected,
                outcome |-> call.outcome, result |-> call.result,
                transport |-> call.transport]>>

\* The caller awaits op: left is what the method leaves.
ClientCall(op, outcome, left) ==
    /\ call # None
    /\ call.made < MaxCalls
    /\ _connected' = [_connected EXCEPT !["m1"] = left._connected]
    /\ call' = [op |-> op, was_connected |-> _connected["m1"],
                outcome |-> outcome, result |-> left.result,
                transport |-> left.transport, before |-> Made,
                made |-> call.made + 1]
    /\ UNCHANGED <<machines, retry_attempts, _status, _monitoring, _tasks,
                   task, stops, lastCall, now, stamp, elapsed, returned>>

ClientConnect ==
    \E outcome \in TransportOutcomes :
        ClientCall("connect", outcome, connect(_connected["m1"], outcome))

ClientDisconnect ==
    \E outcome \in TransportOutcomes :
        ClientCall("disconnect", outcome,
                   disconnect(_connected["m1"], outcome))

CallMethod ==
    \E outcome \in CallOutcomes :
        ClientCall("_call_method", outcome,
                   _call_method(_connected["m1"], outcome))

ClientGetMachineStatus ==
    \E read \in JobReads, reads \in LaserReads :
        ClientCall("get_machine_status", [job |-> read, laser |-> reads],
                   client_get_machine_status(_connected["m1"], read, reads))

\* BystronicClient("m1"): lines 55-65
ClientInit ==
    /\ MonitorConstructed({"m1"}, DefaultRetryAttempts)
    /\ call = [op |-> "__init__", was_connected |-> FALSE,
               outcome |-> "ok", result |-> [returns |-> None],
               transport |-> <<>>, before |-> <<>>, made |-> 0]

ClientNext ==
    \/ ClientConnect
    \/ ClientDisconnect
    \/ CallMethod
    \/ ClientGetMachineStatus

ClientSpec == ClientInit /\ [][ClientNext]_vars

-----------------------------------------------------------------------------
(* Properties of the client called directly. *)

\* C31: when disconnect has returned or raised, the flag is False; it made
\* one disconnect call on the transport if the client was connected and
\* none if it was not; and two disconnect calls in a row made one
\* transport call between them if the client was connected before the
\* first, none if it was not.
C31_DisconnectIdempotent ==
    (call # None /\ call.op = "disconnect") =>
        /\ ~_connected["m1"]
        /\ call.transport =
               (IF call.was_connected THEN <<"disconnect">> ELSE <<>>)
        /\ (call.before # <<>> /\ call.before[1].op = "disconnect") =>
               Len(call.before[1].transport \o call.transport) =
                   (IF call.before[1].was_connected THEN 1 ELSE 0)

\* C32: a _call_method made while the flag is False raises ConnectionError
\* ("Client is not connected...") and makes no call on the transport;
\* made while the flag is True it returns the result of the call, or, when
\* get_node or call_method raised anything, raises MethodCallError, never
\* ConnectionError; the flag is as it was.
C32_CallMethodErrors ==
    (call # None /\ call.op = "_call_method") =>
        /\ _connected["m1"] = call.was_connected
        /\ ~call.was_connected =>
              /\ call.result = _ensure_connected(FALSE)
              /\ call.result.raises = "ConnectionError"
              /\ call.transport = <<>>
        /\ call.was_connected =>
              IF call.outcome.at = "return"
              THEN call.result = [returns |-> "result"]
              ELSE /\ "raises" \in DOMAIN call.result
                   /\ call.result.raises = "MethodCallError"
                   /\ call.result.message[2] = call.outcome.raises

\* C32 witness: the client was connected and its disconnect returned; the
\* _call_method made next raised ConnectionError and made no call on the
\* transport.
C32_Witness ==
    /\ call # None
    /\ call.op = "_call_method"
    /\ ~call.was_connected
    /\ call.result = _ensure_connected(FALSE)
    /\ call.transport = <<>>
    /\ call.before # <<>>
    /\ call.before[1].op = "disconnect"
    /\ call.before[1].was_connected
    /\ call.before[1].transport = <<"disconnect">>

=============================================================================
